---- MODULE Spec2Model ----
(***************************************************************************)
(* Model of the Spotify gateway of localserver-go: the environment         *)
(* registry (envs, currentEnv, new), the request middleware, and the two   *)
(* playback-transfer strategies with the Spotify Web API calls they issue. *)
(*                                                                         *)
(* A pointer to a Spotify instance is the pair <<name, k>> of the k-th     *)
(* instance constructed for a name; NilPtr is Go's nil.  A pointer to      *)
(* Tokens or to a Device, which may be nil, is a sequence of length 0      *)
(* (nil) or 1.  Every reply of the Spotify API is an input of the handler  *)
(* that consumes it.                                                       *)
(***************************************************************************)
EXTENDS Integers, Sequences, FiniteSets, TLC

VARIABLES
    alive,       \* the process is running (log.Fatalln has not been called)
    config,      \* what godotenv.Load finds
    heap,        \* every Spotify instance ever constructed, by pointer
    envs,        \* the registry map: name -> pointer
    currentEnv,  \* the shared current-environment pointer
    files,       \* the token file of each environment
    tasks,       \* detached goroutines that wait to switch shuffle/repeat on
    req,         \* the request being served, with what it did
    bg,          \* the goroutine that has just run, with what it did
    served,      \* the number of requests to protected routes received so far
    store,       \* a token file written and read back, byte by byte
    timers,      \* the clock and the actions handed to schedule
    applied,     \* a function called on its own: its arguments and its result
    inflight     \* protected requests served at the same time, each by its goroutine

vars == <<alive, config, heap, envs, currentEnv, files, tasks, req, bg, served, store, timers,
          applied, inflight>>

-----------------------------------------------------------------------------
(* Constants of the program *)

Home == "home"
Main == "main"
EnvironmentName == {Home, Main}

NilPtr == <<>>
NetErr == 0
StatusOK == 200
StatusNoContent == 204

\* Bounds of the model: the requests to protected routes a run serves,
\* the tracks of a queue, the pages of a track listing and their items,
\* and the tracks of a playlist
MaxRequests == 2
MaxQueue == 2
MaxPages == 2
MaxPageItems == 1
MaxTotal == 2

Device(id, name, active, volume, supports) ==
    [ID |-> id, Name |-> name, IsActive |-> active,
     VolumenPercent |-> volume, SupportsVolume |-> supports]

DefaultVolume == 50

\* The device lists new() configures
StaticDevices(environment) ==
    IF environment = Main
    THEN << Device("", "iPhone", FALSE, DefaultVolume, FALSE),
            Device("", "MacBook Air de Richard", FALSE, DefaultVolume, TRUE) >>
    ELSE << Device("", "librespot", FALSE, DefaultVolume, TRUE) >>

\* What the model keeps of a device list stored in sp.Devices: the names,
\* the only field the program reads back from a stored list
Names(devices) == [i \in 1..Len(devices) |-> devices[i].Name]

Tokens(access, refresh) == [AccessToken |-> access, RefreshToken |-> refresh]

-----------------------------------------------------------------------------
(* Token store *)

\* readTokensFromFile: nil (<<>>) when the file is absent or holds no
\* refresh token, else the pair it holds.
readTokensFromFile(file) ==
    IF file = <<>> THEN <<>>
    ELSE IF file[1].RefreshToken = "" THEN <<>>
    ELSE file

-----------------------------------------------------------------------------
(* Environment registry *)

\* envs[name] of a Go map: nil for a key that is absent
Lookup(e, name) == IF name \in DOMAIN e THEN e[name] ELSE NilPtr

\* The instances constructed so far for a name
Instances(h, name) == {p \in DOMAIN h : p[1] = name}

\* &Spotify{...}: the pointer of a fresh instance
Alloc(h, name) == <<name, Cardinality(Instances(h, name)) + 1>>

\* A mutant of new: the existence check is lost, every call constructs.
newAlwaysConstructs(h, e, cfg, fs, environment) ==
    IF cfg = "absent"
    THEN [heap |-> h, envs |-> e, ptr |-> NilPtr, fatal |-> TRUE, built |-> FALSE]
    ELSE IF environment \notin EnvironmentName
    THEN [heap |-> h, envs |-> e, ptr |-> NilPtr, fatal |-> FALSE, built |-> FALSE]
    ELSE LET sp == [Name |-> environment,
                    Devices |-> Names(StaticDevices(environment)),
                    tokens |-> readTokensFromFile(fs[environment])]
             p == Alloc(h, environment)
         IN [heap |-> [a \in DOMAIN h \cup {p} |-> IF a = p THEN sp ELSE h[a]],
             envs |-> [n \in DOMAIN e \cup {environment} |->
                          IF n = environment THEN p ELSE e[n]],
             ptr |-> p, fatal |-> FALSE, built |-> TRUE]

\* new(environment): the registered instance when the name is a key of envs;
\* else the process exits when .env cannot be loaded (log.Fatalln), nil is
\* returned for an unknown name, and a fresh instance is built, registered
\* and returned otherwise.
new(h, e, cfg, fs, environment) ==
    IF environment \in DOMAIN e
    THEN [heap |-> h, envs |-> e, ptr |-> e[environment], fatal |-> FALSE, built |-> FALSE]
    ELSE IF cfg = "absent"
    THEN [heap |-> h, envs |-> e, ptr |-> NilPtr, fatal |-> TRUE, built |-> FALSE]
    ELSE IF environment \notin EnvironmentName
    THEN [heap |-> h, envs |-> e, ptr |-> NilPtr, fatal |-> FALSE, built |-> FALSE]
    ELSE LET sp == [Name |-> environment,
                    Devices |-> Names(StaticDevices(environment)),
                    tokens |-> readTokensFromFile(fs[environment])]
             p == Alloc(h, environment)
         IN [heap |-> [a \in DOMAIN h \cup {p} |-> IF a = p THEN sp ELSE h[a]],
             envs |-> [n \in DOMAIN e \cup {environment} |->
                          IF n = environment THEN p ELSE e[n]],
             ptr |-> p, fatal |-> FALSE, built |-> TRUE]

-----------------------------------------------------------------------------
(* Inputs of a handler: the replies of the outside world *)

EmptyUri == <<"">>
PlaylistUri == <<"spotify", "playlist", "P1">>
AlbumUri == <<"spotify", "album", "A1">>

TrackUris == {"", "u1"}

RECURSIVE SeqsUpTo(_, _)
SeqsUpTo(S, n) ==
    IF n = 0 THEN {<<>>}
    ELSE LET shorter == SeqsUpTo(S, n - 1)
         IN shorter \cup {Append(q, x) : q \in {r \in shorter : Len(r) = n - 1}, x \in S}

\* What GET /me/player/devices can answer for an account: a transport or
\* decoding error, or a list of devices
LiveDevices(environment) ==
    IF environment = Main
    THEN { [ok |-> FALSE, devices |-> <<>>],
           [ok |-> TRUE, devices |-> <<>>],
           [ok |-> TRUE, devices |-> << Device("m1", "iPhone", FALSE, 40, FALSE),
                                        Device("m2", "MacBook Air de Richard", TRUE, 40, TRUE) >>],
           [ok |-> TRUE, devices |-> << Device("m2", "MacBook Air de Richard", FALSE, 40, TRUE),
                                        Device("m1", "iPhone", TRUE, 40, FALSE) >>] }
    ELSE { [ok |-> FALSE, devices |-> <<>>],
           [ok |-> TRUE, devices |-> <<>>],
           [ok |-> TRUE, devices |-> << Device("h1", "librespot", FALSE, 40, TRUE) >>] }

\* What the token endpoint can answer to a refresh, and whether the token
\* file can be written afterwards
RefreshReplies ==
    { [status |-> StatusOK, access |-> "a1", written |-> TRUE, body |-> ""],
      [status |-> StatusOK, access |-> "a1", written |-> FALSE, body |-> ""],
      [status |-> StatusOK, access |-> "", written |-> TRUE, body |-> ""],
      [status |-> 401, access |-> "", written |-> TRUE, body |-> "invalid_client"],
      [status |-> NetErr, access |-> "", written |-> TRUE, body |-> ""] }

\* What the token endpoint can answer to the exchange of an authorization
\* code: a pair of tokens, an error object (which decodes into a Tokens with
\* both fields empty), a body that is not JSON, or nothing; and whether the
\* token file can be written afterwards
ExchangeReplies ==
    { [status |-> StatusOK, decodes |-> TRUE, access |-> "a2", refresh |-> "r2",
       written |-> TRUE],
      [status |-> StatusOK, decodes |-> TRUE, access |-> "a2", refresh |-> "r2",
       written |-> FALSE],
      [status |-> 400, decodes |-> TRUE, access |-> "", refresh |-> "", written |-> TRUE],
      [status |-> 502, decodes |-> FALSE, access |-> "", refresh |-> "", written |-> TRUE],
      [status |-> NetErr, decodes |-> FALSE, access |-> "", refresh |-> "",
       written |-> TRUE] }

\* The answers to a request: a transport error (NetErr), or a status of
\* each kind the code that consumes the reply tells apart
GetStatuses == {StatusOK, StatusNoContent, 404, NetErr}
PauseStatuses == {StatusOK, StatusNoContent, NetErr}
PlayStatuses == {StatusNoContent, 404, NetErr}
PutStatuses == {StatusNoContent, NetErr}

\* Track names of a playlist page, and the pages of a listing: the k-th
\* request for tracks is answered with the items of page k and, unless
\* page k is the last one the listing can have, with or without a next link.
TrackNames == {"t1", "t2"}
PageField(k) == "page" \o ToString(k)
NextField(k) == "next" \o ToString(k)
PageReplies == {[ok |-> FALSE, items |-> <<>>]}
               \cup {[ok |-> TRUE, items |-> q] : q \in SeqsUpTo(TrackNames, MaxPageItems)}

\* The domain of every input; an input a handler never reads keeps its
\* default.
Dom ==
    [f \in {PageField(k) : k \in 1..MaxPages} |-> PageReplies] @@
    [f \in {NextField(k) : k \in 1..MaxPages} |-> BOOLEAN] @@
    [ homeFirst  |-> BOOLEAN,
      homeFirst2 |-> BOOLEAN,
      mwRefresh  |-> RefreshReplies,
      exchange   |-> ExchangeReplies,
      refresh    |-> RefreshReplies,
      liveHome   |-> LiveDevices(Home),
      liveMain   |-> LiveDevices(Main),
      pbStatus   |-> GetStatuses,
      pbPlaying  |-> BOOLEAN,
      pbContext  |-> {EmptyUri, PlaylistUri, AlbumUri},
      pbItem     |-> {"", "t1"},
      pbSupports |-> BOOLEAN,
      pbVolume   |-> {30},
      pbProgress |-> {7},
      uqStatus   |-> GetStatuses,
      uqCurrent  |-> TrackUris,
      uqQueue    |-> SeqsUpTo(TrackUris, MaxQueue),
      pause      |-> PauseStatuses,
      play       |-> PlayStatuses,
      volume     |-> PutStatuses,
      shuffle    |-> PutStatuses,
      repeat     |-> PutStatuses,
      plStatus   |-> GetStatuses,
      plDecodes  |-> BOOLEAN,
      plTotal    |-> 0..MaxTotal,
      rand       |-> 0..MaxTotal ]

\* The values of each input, in some order
RECURSIVE Listed(_)
Listed(S) == IF S = {} THEN <<>> ELSE LET x == CHOOSE y \in S : TRUE IN <<x>> \o Listed(S \ {x})
Options == [f \in DOMAIN Dom |-> Listed(Dom[f])]

Default ==
    [f \in {PageField(k) : k \in 1..MaxPages} |-> [ok |-> FALSE, items |-> <<>>]] @@
    [f \in {NextField(k) : k \in 1..MaxPages} |-> FALSE] @@
    [ homeFirst  |-> TRUE,
      homeFirst2 |-> TRUE,
      mwRefresh  |-> [status |-> StatusOK, access |-> "a1", written |-> TRUE, body |-> ""],
      exchange   |-> [status |-> StatusOK, decodes |-> TRUE, access |-> "a2",
                      refresh |-> "r2", written |-> TRUE],
      refresh    |-> [status |-> StatusOK, access |-> "a1", written |-> TRUE, body |-> ""],
      liveHome   |-> [ok |-> FALSE, devices |-> <<>>],
      liveMain   |-> [ok |-> FALSE, devices |-> <<>>],
      pbStatus   |-> StatusOK,
      pbPlaying  |-> TRUE,
      pbContext  |-> EmptyUri,
      pbItem     |-> "",
      pbSupports |-> FALSE,
      pbVolume   |-> 30,
      pbProgress |-> 7,
      uqStatus   |-> StatusOK,
      uqCurrent  |-> "",
      uqQueue    |-> <<>>,
      pause      |-> StatusOK,
      play       |-> StatusNoContent,
      volume     |-> StatusNoContent,
      shuffle    |-> StatusNoContent,
      repeat     |-> StatusNoContent,
      plStatus   |-> StatusOK,
      plDecodes  |-> TRUE,
      plTotal    |-> 0,
      rand       |-> 0 ]


-----------------------------------------------------------------------------
(* Execution context of a handler: the state it changes, the calls it has  *)
(* issued so far, the inputs it has read, and whether it has panicked.     *)
(* An operation takes a context and yields a record with the context it    *)
(* leaves in field c; an operation of several steps is one definition per  *)
(* step, each handing what it computed to the next.                        *)

Ctx(h, fs, ts, in) ==
    [heap |-> h, files |-> fs, tasks |-> ts, calls |-> <<>>, used |-> <<>>,
     panic |-> FALSE, feasible |-> TRUE, in |-> in, err |-> <<>>]

\* used lists the inputs read so far, in the order of their first read
Read(c, field) ==
    IF \E i \in 1..Len(c.used) : c.used[i] = field THEN c
    ELSE [c EXCEPT !.used = Append(@, field)]

Panic(c) == [c EXCEPT !.panic = TRUE]
\* An input the outside world cannot produce here (rand.Intn(n) >= n)
Infeasible(c) == [c EXCEPT !.feasible = FALSE]
Issue(c, op, p, status, arg) ==
    [c EXCEPT !.calls = Append(@, [op |-> op, env |-> p, status |-> status, arg |-> arg])]

NoArg == [none |-> TRUE]

\* The inputs a request keeps for inspection: all it read but the pages of
\* a track listing, whose effect shows in the offsets requested
Observed(c) ==
    {c.used[i] : i \in 1..Len(c.used)}
    \ ({PageField(k) : k \in 1..MaxPages} \cup {NextField(k) : k \in 1..MaxPages})
Seen(c) == [f \in Observed(c) |-> c.in[f]]

\* A field of a decoded body, read when the code reads it; the zero value
\* when the reply had no body
Field(c, body, field, zero) ==
    [c |-> IF body THEN Read(c, field) ELSE c,
     v |-> IF body THEN c.in[field] ELSE zero]

\* The least element of a set of positions, 0 for none
First(S) == IF S = {} THEN 0 ELSE CHOOSE i \in S : \A j \in S : i <= j

\* sp.tokens.AccessToken panics when sp or sp.tokens is nil
HasTokens(c, p) == p # NilPtr /\ c.heap[p].tokens # <<>>

\* makeRequest: the bearer token is read (a nil dereference panics before
\* anything is sent), the request is sent and the reply returned; status
\* NetErr stands for the error of client.Do.
makeRequest(c, p, op, field, arg) ==
    IF ~HasTokens(c, p) THEN [c |-> Panic(c), status |-> NetErr]
    ELSE [c |-> Issue(Read(c, field), op, p, c.in[field], arg), status |-> c.in[field]]

\* What a caller that returns makeRequest's result returns
Replied(m) == [c |-> m.c, err |-> m.c.panic \/ m.status = NetErr, status |-> m.status]

\* return nil, err
Failed(c) == [c |-> c, err |-> TRUE, status |-> NetErr]

-----------------------------------------------------------------------------
(* Device resolver *)

LiveField(c, p) == IF c.heap[p].Name = Main THEN "liveMain" ELSE "liveHome"

getDevicesData_reply(c, p, r) ==
    [c |-> Issue(c, "devices", p, IF r.ok THEN StatusOK ELSE NetErr, NoArg),
     ok |-> r.ok, devices |-> r.devices]

\* getDevicesData(accessToken): GET /me/player/devices with the account's
\* token; the devices of the reply, or an error.  One reply per account
\* stands for every fetch one handler makes.
getDevicesData(c, p) ==
    getDevicesData_reply(Read(c, LiveField(c, p)), p, c.in[LiveField(c, p)])

FirstActive(devices) == First({i \in 1..Len(devices) : devices[i].IsActive})

\* for _, device := range devices { if device.IsActive { return &device } };
\* return &sp.Devices[0], which panics (index out of range) for an empty list
getActiveDevice_pick(c, devices, i) ==
    IF i # 0 THEN [c |-> c, dev |-> <<devices[i]>>]
    ELSE IF devices = <<>> THEN [c |-> Panic(c), dev |-> <<>>]
    ELSE [c |-> c, dev |-> <<devices[1]>>]

\* nil when the fetch fails; else sp.Devices becomes the live list
getActiveDevice_fetched(r, p) ==
    IF ~r.ok THEN [c |-> r.c, dev |-> <<>>]
    ELSE getActiveDevice_pick([r.c EXCEPT !.heap[p].Devices = Names(r.devices)],
                              r.devices, FirstActive(r.devices))

\* getActiveDevice: the first active device of the live list, else its
\* first device
getActiveDevice(c, p) ==
    IF ~HasTokens(c, p) THEN [c |-> Panic(c), dev |-> <<>>]
    ELSE getActiveDevice_fetched(getDevicesData(c, p), p)

getActiveDeviceId_of(r) == [c |-> r.c, id |-> IF r.dev = <<>> THEN "" ELSE r.dev[1].ID]

\* getActiveDeviceId: the id of the active device, "" when there is none
getActiveDeviceId(c, p) == getActiveDeviceId_of(getActiveDevice(c, p))

getDeviceId_first(devices, i) == IF i = 0 THEN "" ELSE devices[i].ID

getDeviceId_fetched(r, deviceName) ==
    IF ~r.ok THEN [c |-> r.c, id |-> "", err |-> TRUE]
    ELSE [c |-> r.c, err |-> FALSE,
          id |-> getDeviceId_first(r.devices,
                    First({i \in 1..Len(r.devices) :
                             r.devices[i].Name = deviceName /\ r.devices[i].ID # ""}))]

\* getDeviceId: the id of the first device of the live list that has the
\* name and a non-empty id; "" when none has; an error for an empty name
\* or a failed fetch.
getDeviceId(c, p, deviceName) ==
    IF deviceName = "" THEN [c |-> c, id |-> "", err |-> TRUE]
    ELSE IF ~HasTokens(c, p) THEN [c |-> Panic(c), id |-> "", err |-> TRUE]
    ELSE getDeviceId_fetched(getDevicesData(c, p), deviceName)

\* appendDeviceId: the url scoped with the active device id, when there is one
appendDeviceId(c, p) == getActiveDeviceId(c, p)

-----------------------------------------------------------------------------
(* Token refresh *)

\* fmt.Errorf in refreshToken: only "bad response (%d): %s" has arguments,
\* the status and the body of the reply
Errorf(c, msg, r) ==
    [c |-> [c EXCEPT !.err = <<[msg |-> msg,
                                status |-> IF msg = "bad response" THEN r.status ELSE 0,
                                body |-> IF msg = "bad response" THEN r.body ELSE ""]>>],
     err |-> TRUE]

\* A mutant of refreshToken_store: the token file is left as it was.
refreshToken_memoryOnly(c, p, r) == [c |-> c, err |-> FALSE]

\* The access token in memory is replaced, then the token file is written
\* (an error when that fails).
refreshToken_store(c, p, r) ==
    IF ~r.written THEN Errorf(c, "writing tokens", r)
    ELSE [c |-> [c EXCEPT !.files[c.heap[p].Name] =
                    <<Tokens(r.access, c.heap[p].tokens[1].RefreshToken)>>],
          err |-> FALSE]

\* A mutant of refreshToken_reply: the status of the reply is not looked at.
refreshToken_statusIgnored(c, p, r) ==
    IF r.status = NetErr THEN Errorf(c, "executing request", r)
    ELSE IF r.access = "" THEN Errorf(c, "no access token in response", r)
    ELSE refreshToken_store([c EXCEPT !.heap[p].tokens[1].AccessToken = r.access], p, r)

\* An error for a transport error, a status other than 200 (it carries the
\* status and the body) or a reply without access token
refreshToken_reply(c, p, r) ==
    IF r.status = NetErr THEN Errorf(c, "executing request", r)
    ELSE IF r.status # StatusOK THEN Errorf(c, "bad response", r)
    ELSE IF r.access = "" THEN Errorf(c, "no access token in response", r)
    ELSE refreshToken_store([c EXCEPT !.heap[p].tokens[1].AccessToken = r.access], p, r)

\* refreshToken: POST the refresh token of sp to the token endpoint
refreshToken(c, p, field) ==
    IF ~HasTokens(c, p) THEN [c |-> Panic(c), err |-> TRUE]
    ELSE refreshToken_reply(Issue(Read(c, field), "token", p, c.in[field].status, NoArg),
                            p, c.in[field])

-----------------------------------------------------------------------------
(* Playback controller *)

setVolume_put(g, p, volumePercent) ==
    IF g.c.panic \/ g.err THEN Failed(g.c)
    ELSE Replied(makeRequest(g.c, p, "volume", "volume",
                             [volume_percent |-> volumePercent, device_id |-> g.id]))

\* return nil, fmt.Errorf(msg)
Fail(c, msg) == Failed([c EXCEPT !.err = <<[msg |-> msg, status |-> 0, body |-> ""]>>])

\* A mutant of setVolume_device: the capability of the device is not looked at.
setVolume_anyDevice(d, p, volumePercent) ==
    IF d.c.panic THEN Failed(d.c)
    ELSE IF d.dev = <<>> THEN Fail(d.c, "device not found")
    ELSE setVolume_put(getDeviceId(d.c, p, d.dev[1].Name), p, volumePercent)

setVolume_device(d, p, volumePercent) ==
    IF d.c.panic THEN Failed(d.c)
    ELSE IF d.dev = <<>> THEN Fail(d.c, "device not found")
    ELSE IF ~d.dev[1].SupportsVolume THEN Fail(d.c, "device doesn't support volume")
    ELSE setVolume_put(getDeviceId(d.c, p, d.dev[1].Name), p, volumePercent)

\* setVolume: an error when no device is found, when the active device does
\* not support volume or when its id cannot be fetched; else PUT volume.
setVolume(c, p, volumePercent) == setVolume_device(getActiveDevice(c, p), p, volumePercent)

pausePlayback_put(a, p) ==
    IF a.c.panic THEN [c |-> a.c, status |-> NetErr]
    ELSE makeRequest(a.c, p, "pause", "pause", [device_id |-> a.id])

\* pausePlayback: PUT pause, scoped with the active device id
pausePlayback(c, p) == pausePlayback_put(appendDeviceId(c, p), p)

\* A mutant of pauseCurrentPlayback_status: the status of the reply is not
\* checked.
pauseCurrentPlayback_anyStatus(r) == [c |-> r.c, err |-> r.c.panic \/ r.status = NetErr]

\* if err != nil { return err }; if resp.StatusCode != http.StatusOK { error }
pauseCurrentPlayback_status(r) ==
    [c |-> r.c, err |-> r.c.panic \/ r.status = NetErr \/ r.status # StatusOK]

\* pauseCurrentPlayback: an error unless the pause is answered with 200
pauseCurrentPlayback(c, p) == pauseCurrentPlayback_status(pausePlayback(c, p))

-----------------------------------------------------------------------------
(* Playback transfer engine *)

\* The zero value for 204, the decoded body for 200, an error for a
\* transport error or any other status.
Decoded(m) ==
    IF m.c.panic THEN [c |-> m.c, err |-> TRUE, body |-> FALSE]
    ELSE IF m.status = NetErr THEN [c |-> m.c, err |-> TRUE, body |-> FALSE]
    ELSE IF m.status = StatusNoContent THEN [c |-> m.c, err |-> FALSE, body |-> FALSE]
    ELSE IF m.status # StatusOK THEN [c |-> m.c, err |-> TRUE, body |-> FALSE]
    ELSE [c |-> m.c, err |-> FALSE, body |-> TRUE]

\* getCurrentPlayback: GET /me/player
getCurrentPlayback(c, p) == Decoded(makeRequest(c, p, "playback", "pbStatus", NoArg))

\* getUserQueue: GET /me/player/queue
getUserQueue(c, p) == Decoded(makeRequest(c, p, "queue", "uqStatus", NoArg))

NonEmpty(q) == SelectSeq(q, LAMBDA u : u # "")

\* The body of the reply to a play request, by its status
PlayBody(status) == IF status = 404 THEN "NO_ACTIVE_DEVICE" ELSE ""

\* return nil, fmt.Errorf(msg, ...) in playUris
playUris_error(c, msg, status) ==
    [c |-> [c EXCEPT !.err = <<[msg |-> msg, status |-> status,
                                body |-> PlayBody(status)]>>],
     err |-> TRUE]

\* A mutant of playUris_status: any status the destination answers with is
\* taken for a success.
playUris_anyStatus(m) ==
    IF m.c.panic THEN [c |-> m.c, err |-> TRUE]
    ELSE IF m.status = NetErr
    THEN playUris_error(m.c, "failed to start playback on destination", 0)
    ELSE [c |-> m.c, err |-> FALSE]

\* err != nil, then resp.StatusCode != http.StatusNoContent
playUris_status(m) ==
    IF m.c.panic THEN [c |-> m.c, err |-> TRUE]
    ELSE IF m.status = NetErr
    THEN playUris_error(m.c, "failed to start playback on destination", 0)
    ELSE IF m.status # StatusNoContent
    THEN playUris_error(m.c, "failed to transfer playback", m.status)
    ELSE [c |-> m.c, err |-> FALSE]

playUris_put(a, p, uris, positionMs) ==
    IF a.c.panic THEN [c |-> a.c, err |-> TRUE]
    ELSE playUris_status(makeRequest(a.c, p, "play", "play",
                            [uris |-> uris, position_ms |-> positionMs, device_id |-> a.id]))

\* playUris: an error for no uris, for a transport error and for any status
\* other than 204.
playUris(c, p, uris, positionMs) ==
    IF Len(uris) = 0 THEN [c |-> c, err |-> TRUE]
    ELSE playUris_put(appendDeviceId(c, p), p, uris, positionMs)

\* A mutant of NothingToTransfer: only an empty queue is a no-op.
NothingToTransferQueueOnly(queueLen, isPlaying) == queueLen = 0

\* The guard of transferPlayback: nothing to migrate
NothingToTransfer(queueLen, isPlaying) == queueLen = 0 \/ ~isPlaying

\* A mutant of CurrentUris: the track is added whatever its uri.
CurrentUrisUnfiltered(current) == <<current>>

\* The list transferPlayback starts from: the currently playing uri, when
\* it is not empty
CurrentUris(current) == IF current # "" THEN <<current>> ELSE <<>>

\* A mutant of QueuedUris: the queued tracks are appended whatever their
\* uri.
QueuedUrisUnfiltered(uris, queue) == uris \o queue

\* The queued tracks that have a uri, appended in queue order
QueuedUris(uris, queue) == uris \o NonEmpty(queue)

Return(c, result) == [c |-> c, result |-> IF c.panic THEN "panic" ELSE result]

transferPlayback_done(pl) ==
    IF pl.err THEN Return(pl.c, "ErrPlay") ELSE Return(pl.c, "ok")

transferPlayback_play(progress, uris, to) ==
    transferPlayback_done(playUris(progress.c, to, uris, progress.v))

transferPlayback_paused(ps, uris, pbBody, to) ==
    IF ps.err THEN Return(ps.c, "ErrPause")
    ELSE transferPlayback_play(Field(ps.c, pbBody, "pbProgress", 0), uris, to)

\* The uris are checked before the queued tracks are appended
transferPlayback_uris(current, queue, pbBody, sp, to) ==
    IF Len(CurrentUris(current.v)) = 0 THEN Return(current.c, "ErrNoValidUris")
    ELSE transferPlayback_paused(pauseCurrentPlayback(current.c, sp),
                                 QueuedUris(CurrentUris(current.v), queue), pbBody, to)

transferPlayback_guarded(playing, queue, uqBody, pbBody, sp, to) ==
    IF NothingToTransfer(Len(queue), playing.v) THEN Return(playing.c, "ok")
    ELSE transferPlayback_uris(Field(playing.c, uqBody, "uqCurrent", ""),
                               queue, pbBody, sp, to)

\* len(queue.Queue) == 0 || !playback.IsPlaying: IsPlaying is read only
\* when the queue is not empty
transferPlayback_guard(queue, uqBody, pbBody, sp, to) ==
    transferPlayback_guarded(
        IF Len(queue.v) = 0 THEN [c |-> queue.c, v |-> FALSE]
        ELSE Field(queue.c, pbBody, "pbPlaying", FALSE),
        queue.v, uqBody, pbBody, sp, to)

transferPlayback_queue(uq, pbBody, sp, to) ==
    IF uq.c.panic \/ uq.err THEN Return(uq.c, "ErrQueue")
    ELSE transferPlayback_guard(Field(uq.c, uq.body, "uqQueue", <<>>),
                                uq.body, pbBody, sp, to)

transferPlayback_playback(pb, sp, to) ==
    IF pb.c.panic \/ pb.err THEN Return(pb.c, "ErrPlayback")
    ELSE transferPlayback_queue(getUserQueue(pb.c, sp), pb.body, sp, to)

\* A mutant of transferPlayback_refreshed: the error of the refresh is
\* ignored.
transferPlayback_refreshIgnored(rt, sp, to) ==
    IF rt.c.panic THEN Return(rt.c, "ErrRefresh")
    ELSE transferPlayback_playback(getCurrentPlayback(rt.c, sp), sp, to)

\* if err := to.refreshToken(); err != nil { return error }
transferPlayback_refreshed(rt, sp, to) ==
    IF rt.c.panic \/ rt.err THEN Return(rt.c, "ErrRefresh")
    ELSE transferPlayback_playback(getCurrentPlayback(rt.c, sp), sp, to)

\* transferPlayback: sp is the source, to the destination
transferPlayback(c, sp, to) ==
    IF to = NilPtr THEN Return(c, "ErrNilDestination")
    ELSE transferPlayback_refreshed(refreshToken(c, to, "refresh"), sp, to)

\* A mutant of parsePlaylistId: the resource type is not looked at.
parsePlaylistId_anyType(uri) ==
    IF Len(uri) = 3 /\ uri[1] = "spotify"
    THEN [id |-> uri[3], err |-> FALSE]
    ELSE [id |-> "", err |-> TRUE]

\* parsePlaylistId: the id of a uri of the form spotify:playlist:<id>, an
\* error for any other uri.  A uri is the sequence of its sections.
parsePlaylistId(uri) ==
    IF Len(uri) = 3 /\ uri[1] = "spotify" /\ uri[2] = "playlist"
    THEN [id |-> uri[3], err |-> FALSE]
    ELSE [id |-> "", err |-> TRUE]

\* for i, item := range page.Items { if item.Track.Name == trackName }
Position(items, name) == First({i \in 1..Len(items) : items[i] = name})

\* The loop of getTrackNumber from its k-th request on: the position of the
\* first item of the page that has the name, counted from offset; 0 when
\* the request or the decoding fails or when no next page is announced.
RECURSIVE TrackPages(_, _, _, _, _)

TrackPages_next(c, next, page, p, trackName, k, offset) ==
    IF ~next THEN [c |-> c, n |-> 0]
    ELSE TrackPages(c, p, trackName, k + 1, offset + Len(page.items))

\* A mutant of TrackPages_page: the position is counted within the page.
TrackPages_withinPage(c, page, pos, p, trackName, k, offset) ==
    IF ~page.ok THEN [c |-> c, n |-> 0]
    ELSE IF pos # 0 THEN [c |-> c, n |-> pos - 1]
    ELSE IF k < MaxPages
         THEN TrackPages_next(Read(c, NextField(k)), c.in[NextField(k)],
                              page, p, trackName, k, offset)
    ELSE [c |-> c, n |-> 0]

TrackPages_page(c, page, pos, p, trackName, k, offset) ==
    IF ~page.ok THEN [c |-> c, n |-> 0]
    ELSE IF pos # 0 THEN [c |-> c, n |-> offset + pos - 1]
    ELSE IF k < MaxPages
         THEN TrackPages_next(Read(c, NextField(k)), c.in[NextField(k)],
                              page, p, trackName, k, offset)
    ELSE [c |-> c, n |-> 0]

TrackPages(c, p, trackName, k, offset) ==
    IF ~HasTokens(c, p) THEN [c |-> Panic(c), n |-> 0]
    ELSE TrackPages_page(Issue(Read(c, PageField(k)), "tracks", p,
                               IF c.in[PageField(k)].ok THEN StatusOK ELSE NetErr,
                               [offset |-> offset]),
                         c.in[PageField(k)],
                         Position(c.in[PageField(k)].items, trackName),
                         p, trackName, k, offset)

\* getTrackNumber: 0 for an empty uri or name and for a uri that is not a
\* playlist, else the result of the page loop
getTrackNumber(c, p, playlistUri, trackName) ==
    IF playlistUri = EmptyUri \/ trackName = "" THEN [c |-> c, n |-> 0]
    ELSE IF parsePlaylistId(playlistUri).err THEN [c |-> c, n |-> 0]
    ELSE TrackPages(c, p, trackName, 1, 0)

\* The goroutine playPlaylist starts
Spawn(c, p) == [c EXCEPT !.tasks = Append(@, p)]

\* return sp.makeRequest("PUT", urlStr, jsonBody): the reply is returned
\* whatever its status
playPlaylist_put(c, id, p, contextUri, offset, positionMs) ==
    IF c.panic THEN Failed(c)
    ELSE Replied(makeRequest(Spawn(c, p), p, "play", "play",
                    [context_uri |-> contextUri, offset |-> offset,
                     position_ms |-> positionMs, device_id |-> id]))

\* if device != nil && device.SupportsVolume { sp.setVolume(volumePercent) }
playPlaylist_volume(d, id, p, contextUri, volumePercent, offset, positionMs) ==
    IF d.c.panic THEN Failed(d.c)
    ELSE playPlaylist_put(
            IF d.dev # <<>> /\ d.dev[1].SupportsVolume
            THEN setVolume(d.c, p, volumePercent).c ELSE d.c,
            id, p, contextUri, offset, positionMs)

playPlaylist_device(a, p, contextUri, volumePercent, offset, positionMs) ==
    IF a.c.panic THEN Failed(a.c)
    ELSE playPlaylist_volume(getActiveDevice(a.c, p), a.id, p, contextUri,
                             volumePercent, offset, positionMs)

playPlaylist_body(c, p, contextUri, volumePercent, offset, positionMs) ==
    playPlaylist_device(appendDeviceId(c, p), p, contextUri, volumePercent,
                        offset, positionMs)

\* A mutant of playPlaylist_rand: the position is counted from one.
playPlaylist_randFromOne(c, total, p, contextUri, volumePercent) ==
    IF total <= 0 THEN Failed(Panic(c))
    ELSE IF c.in.rand >= total THEN Failed(Infeasible(Read(c, "rand")))
    ELSE playPlaylist_body(Issue(Read(c, "rand"), "rand", p, c.in.rand, [n |-> total]),
                           p, contextUri, volumePercent, <<c.in.rand + 1>>, 0)

\* rand.Intn(n) panics for n <= 0 and answers less than n; the draw is
\* recorded with the calls
playPlaylist_rand(c, total, p, contextUri, volumePercent) ==
    IF total <= 0 THEN Failed(Panic(c))
    ELSE IF c.in.rand >= total THEN Failed(Infeasible(Read(c, "rand")))
    ELSE playPlaylist_body(Issue(Read(c, "rand"), "rand", p, c.in.rand, [n |-> total]),
                           p, contextUri, volumePercent, <<c.in.rand>>, 0)

\* A body that is not a playlist decodes to a total of 0
playPlaylist_decoded(c, status, p, contextUri, volumePercent) ==
    IF ~c.in.plDecodes THEN Failed(c)
    ELSE IF status # StatusOK THEN playPlaylist_rand(c, 0, p, contextUri, volumePercent)
    ELSE playPlaylist_rand(Read(c, "plTotal"), c.in.plTotal, p, contextUri, volumePercent)

playPlaylist_total(m, p, contextUri, volumePercent) ==
    IF m.c.panic \/ m.status = NetErr THEN Failed(m.c)
    ELSE playPlaylist_decoded(Read(m.c, "plDecodes"), m.status, p, contextUri,
                              volumePercent)

\* playPlaylist(contextUri, volumePercent, args...): args is <<>>,
\* <<position>> or <<position, position_ms>>
playPlaylist(c, p, contextUri, volumePercent, args) ==
    IF Len(args) > 0
    THEN playPlaylist_body(c, p, contextUri, volumePercent, <<args[1]>>,
                           IF Len(args) > 1 THEN args[2] ELSE 0)
    ELSE IF parsePlaylistId(contextUri).err
    THEN playPlaylist_body(c, p, contextUri, volumePercent, <<>>, 0)
    ELSE playPlaylist_total(makeRequest(c, p, "playlist", "plStatus", NoArg),
                            p, contextUri, volumePercent)

\* volume := 50
HardTransferDefaultVolume == 50

hardTransferPlayback_done(pl) ==
    IF pl.c.panic \/ pl.err THEN Return(pl.c, "ErrPlay") ELSE Return(pl.c, "ok")

hardTransferPlayback_play(progress, n, uri, volume, to) ==
    hardTransferPlayback_done(playPlaylist(progress.c, to, uri, volume, <<n, progress.v>>))

hardTransferPlayback_number(tn, uri, volume, pbBody, to) ==
    IF tn.c.panic THEN Return(tn.c, "panic")
    ELSE hardTransferPlayback_play(Field(tn.c, pbBody, "pbProgress", 0),
                                   tn.n, uri, volume, to)

hardTransferPlayback_track(item, uri, volume, pbBody, to) ==
    hardTransferPlayback_number(getTrackNumber(item.c, to, uri, item.v),
                                uri, volume, pbBody, to)

\* A mutant of hardTransferPlayback_context: the context is not checked.
hardTransferPlayback_contextUnchecked(context, volume, pbBody, to) ==
    hardTransferPlayback_track(Field(context.c, pbBody, "pbItem", ""),
                               context.v, volume, pbBody, to)

\* if playback.Context.Uri == "" { error }, after the pause
hardTransferPlayback_context(context, volume, pbBody, to) ==
    IF context.v = EmptyUri THEN Return(context.c, "ErrNoContext")
    ELSE hardTransferPlayback_track(Field(context.c, pbBody, "pbItem", ""),
                                    context.v, volume, pbBody, to)

hardTransferPlayback_paused(ps, volume, pbBody, to) ==
    IF ps.err THEN Return(ps.c, "ErrPause")
    ELSE hardTransferPlayback_context(Field(ps.c, pbBody, "pbContext", EmptyUri),
                                      volume, pbBody, to)

hardTransferPlayback_pause(volume, pbBody, sp, to) ==
    hardTransferPlayback_paused(pauseCurrentPlayback(volume.c, sp), volume.v, pbBody, to)

\* if playback.Device.SupportsVolume { volume = playback.Device.VolumenPercent }
hardTransferPlayback_volume(supports, pbBody, sp, to) ==
    hardTransferPlayback_pause(
        IF supports.v THEN Field(supports.c, pbBody, "pbVolume", 0)
        ELSE [c |-> supports.c, v |-> HardTransferDefaultVolume],
        pbBody, sp, to)

hardTransferPlayback_playback(pb, sp, to) ==
    IF pb.c.panic \/ pb.err THEN Return(pb.c, "ErrPlayback")
    ELSE hardTransferPlayback_volume(Field(pb.c, pb.body, "pbSupports", FALSE),
                                     pb.body, sp, to)

\* hardTransferPlayback: sp is the source, to the destination
hardTransferPlayback(c, sp, to) ==
    IF to = NilPtr THEN Return(c, "ErrNilDestination")
    ELSE hardTransferPlayback_playback(getCurrentPlayback(c, sp), sp, to)

-----------------------------------------------------------------------------
(* Resolution of a device name to its environment *)

\* The environments of the registry in the order one range over the map
\* visits them, which Go leaves unspecified
Visit(e, homeFirst) ==
    SelectSeq(IF homeFirst THEN <<Home, Main>> ELSE <<Main, Home>>,
              LAMBDA n : n \in DOMAIN e)

RECURSIVE ScanEnvs(_, _, _, _)

\* for _, device := range env.Devices { if device.Name == deviceName { return env } }
ScanEnvs_match(c, p, e, order, deviceName) ==
    IF \E i \in 1..Len(c.heap[p].Devices) : c.heap[p].Devices[i] = deviceName
    THEN [c |-> c, ptr |-> p]
    ELSE ScanEnvs(c, e, Tail(order), deviceName)

\* if err != nil { log } else { env.Devices = devices }
ScanEnvs_fetched(r, p, e, order, deviceName) ==
    ScanEnvs_match(IF r.ok THEN [r.c EXCEPT !.heap[p].Devices = Names(r.devices)] ELSE r.c,
                   p, e, order, deviceName)

\* if len(env.Devices) == 0 { getDevicesData(env.tokens.AccessToken) }
ScanEnvs_env(c, p, e, order, deviceName) ==
    IF p = NilPtr THEN [c |-> Panic(c), ptr |-> NilPtr]
    ELSE IF Len(c.heap[p].Devices) # 0 THEN ScanEnvs_match(c, p, e, order, deviceName)
    ELSE IF ~HasTokens(c, p) THEN [c |-> Panic(c), ptr |-> NilPtr]
    ELSE ScanEnvs_fetched(getDevicesData(c, p), p, e, order, deviceName)

ScanEnvs(c, e, order, deviceName) ==
    IF order = <<>> THEN [c |-> c, ptr |-> NilPtr]
    ELSE ScanEnvs_env(c, e[Head(order)], e, order, deviceName)

\* The order of the visit is an input where it makes a difference
getEnvFromDeviceName_order(c, e, deviceName, orderField, homeFirst, mainFirst) ==
    IF homeFirst = mainFirst THEN homeFirst
    ELSE ScanEnvs(Read(c, orderField), e, Visit(e, c.in[orderField]), deviceName)

\* getEnvFromDeviceName: nil for an empty name; else the first environment
\* visited whose device list has the name, an empty list being fetched
\* from the API first; nil when none has it.
getEnvFromDeviceName(c, e, deviceName, orderField) ==
    IF deviceName = "" THEN [c |-> c, ptr |-> NilPtr]
    ELSE getEnvFromDeviceName_order(c, e, deviceName, orderField,
                                    ScanEnvs(c, e, Visit(e, TRUE), deviceName),
                                    ScanEnvs(c, e, Visit(e, FALSE), deviceName))

-----------------------------------------------------------------------------
(* Request handlers *)

\* What a handler run yields: its context, the current-environment
\* pointer, the HTTP status it answers with and, for a transfer, the
\* strategy, the source, the destination, the number of calls issued before
\* the transfer began and the outcome of the transfer
Out(c, cur, status, result) ==
    [c |-> c, cur |-> cur, kind |-> "", src |-> NilPtr, dst |-> NilPtr, pre |-> 0,
     status |-> IF c.panic THEN 500 ELSE status,
     result |-> IF c.panic THEN "panic" ELSE result]

\* if env := getEnvFromDeviceName(name); env != nil { updateEnv(env) }
UpdateIfFound(g, cur) == [c |-> g.c, cur |-> IF g.ptr # NilPtr THEN g.ptr ELSE cur]

\* The middleware's choice of the current environment from the query
ResolveCurrent(c, e, cur, q) ==
    IF q.env # "" THEN [c |-> c, cur |-> Lookup(e, q.env)]
    ELSE IF q.device_name # ""
    THEN UpdateIfFound(getEnvFromDeviceName(c, e, q.device_name, "homeFirst"), cur)
    ELSE IF q.from # ""
    THEN UpdateIfFound(getEnvFromDeviceName(c, e, q.from, "homeFirst"), cur)
    ELSE [c |-> c, cur |-> cur]

\* if err := currentEnv.refreshToken(); err != nil { log }; c.Next()
MiddlewareBody_refreshed(t, cur) ==
    Out(t.c, cur, StatusOK, IF t.err THEN "ErrRefresh" ELSE "ok")

MiddlewareBody_resolved(r) ==
    IF r.c.panic THEN Out(r.c, r.cur, 500, "")
    ELSE MiddlewareBody_refreshed(refreshToken(r.c, r.cur, "mwRefresh"), r.cur)

\* SpotifyMiddleware once both environments are registered: the current
\* environment is chosen, its token refreshed (an error is only logged)
\* and the handler called.
MiddlewareBody(c, e, cur, q) == MiddlewareBody_resolved(ResolveCurrent(c, e, cur, q))

HardTransferDevices == {"librespot", "iPhone"}

TransferPlaybackBody_done(t, cur, kind, from, to, pre) ==
    [Out(t.c, cur, IF t.result # "ok" THEN 502 ELSE StatusOK, t.result) EXCEPT
        !.kind = kind, !.src = from, !.dst = to, !.pre = pre]

\* if toName == "librespot" || toName == "iPhone" { hard } else { soft }
TransferPlaybackBody_to(to, from, cur, q) ==
    IF to.c.panic THEN Out(to.c, cur, 500, "")
    ELSE IF from = NilPtr \/ to.ptr = NilPtr THEN Out(to.c, cur, 400, "")
    ELSE IF q.to \in HardTransferDevices
    THEN TransferPlaybackBody_done(hardTransferPlayback(to.c, from, to.ptr),
                                   cur, "hard", from, to.ptr, Len(to.c.calls))
    ELSE TransferPlaybackBody_done(transferPlayback(to.c, from, to.ptr),
                                   cur, "soft", from, to.ptr, Len(to.c.calls))

TransferPlaybackBody_from(from, e, cur, q) ==
    IF from.c.panic THEN Out(from.c, cur, 500, "")
    ELSE TransferPlaybackBody_to(getEnvFromDeviceName(from.c, e, q.to, "homeFirst2"),
                                 from.ptr, cur, q)

\* The TransferPlayback handler
TransferPlaybackBody(c, e, cur, q) ==
    IF q.from = "" \/ q.to = "" THEN Out(c, cur, 400, "")
    ELSE TransferPlaybackBody_from(getEnvFromDeviceName(c, e, q.from, "homeFirst"),
                                   e, cur, q)

\* strconv.Atoi on the query values the model sends
Atoi(str) == IF str = "50" THEN [n |-> 50, err |-> FALSE] ELSE [n |-> 0, err |-> TRUE]

\* currentEnv.setVolume(volume), whose result is dropped
VolumeBody_set(v, cur) == Out(v.c, cur, StatusOK, IF v.err THEN "ErrVolume" ELSE "ok")

\* The Volume handler
VolumeBody(c, e, cur, q) ==
    IF q.percentage = "" THEN Out(c, cur, 400, "")
    ELSE IF Atoi(q.percentage).err THEN Out(c, cur, 400, "")
    ELSE VolumeBody_set(setVolume(c, cur, Atoi(q.percentage).n), cur)

\* PUT shuffle or repeat, scoped with the active device id; the reply is
\* dropped
PlayerState_put(a, p, op, state) ==
    IF a.c.panic THEN a.c
    ELSE makeRequest(a.c, p, op, op, [state |-> state, device_id |-> a.id]).c

toggleShuffle(c, p) == PlayerState_put(appendDeviceId(c, p), p, "shuffle", "true")

enableRepeat(c, p, state) ==
    IF c.panic THEN c ELSE PlayerState_put(appendDeviceId(c, p), p, "repeat", state)

\* toggleShuffle(true), then enableRepeat("context"), of the goroutine of
\* playPlaylist
ShuffleRepeatBody(c, p) == Out(enableRepeat(toggleShuffle(c, p), p, "context"), NilPtr, 0, "")

\* resp, err := sp.playPlaylist(uri, volume) in the Playlist handler, and
\* the response to it
PlaylistBody_done(t, cur) ==
    Out(t.c, cur, IF t.err THEN 500 ELSE StatusOK, IF t.err THEN "ErrPlay" ELSE "ok")

PlaylistBody(c, p, cur, uri, volume) ==
    PlaylistBody_done(playPlaylist(c, p, uri, volume, <<>>), cur)

\* playPlayback: PUT play, scoped with the active device id
playPlayback_put(a, p) ==
    IF a.c.panic THEN [c |-> a.c, status |-> NetErr]
    ELSE makeRequest(a.c, p, "play", "play", [device_id |-> a.id])

playPlayback(c, p) == playPlayback_put(appendDeviceId(c, p), p)

\* The responses of Play and Pause: 200 when the call returned no error,
\* else 400
PlayPauseBody_done(m, cur) ==
    Out(m.c, cur, IF m.status = NetErr THEN 400 ELSE StatusOK,
        IF m.status = NetErr THEN "ErrPlayback" ELSE "ok")

\* sp := getEnvFromDeviceName(deviceName); sp.playPlayback() or
\* sp.pausePlayback(), on a nil sp as well
PlayPauseBody_env(g, cur, op) ==
    IF g.c.panic THEN Out(g.c, cur, 500, "")
    ELSE PlayPauseBody_done(IF op = "play" THEN playPlayback(g.c, g.ptr)
                            ELSE pausePlayback(g.c, g.ptr), cur)

\* The Play and Pause handlers, which differ in the call they make
PlayPauseBody(c, e, cur, q, op) ==
    IF q.device_name = "" THEN Out(c, cur, 400, "")
    ELSE PlayPauseBody_env(getEnvFromDeviceName(c, e, q.device_name, "homeFirst"), cur, op)

PlaylistHandler_env(g, cur, q) ==
    IF g.c.panic THEN Out(g.c, cur, 500, "")
    ELSE IF q.uri = EmptyUri THEN Out(g.c, cur, 400, "")
    ELSE IF Atoi(q.volume).err THEN Out(g.c, cur, 400, "")
    ELSE PlaylistBody(g.c, g.ptr, cur, q.uri, Atoi(q.volume).n)

\* The Playlist handler: the default of device_name, the first device of
\* the current environment, is evaluated before the query is read
PlaylistHandler(c, e, cur, q) ==
    IF cur = NilPtr THEN Out(Panic(c), cur, 500, "")
    ELSE IF c.heap[cur].Devices = <<>> THEN Out(Panic(c), cur, 500, "")
    ELSE PlaylistHandler_env(
            getEnvFromDeviceName(c, e, IF q.device_name = "" THEN c.heap[cur].Devices[1]
                                       ELSE q.device_name, "homeFirst"),
            cur, q)

-----------------------------------------------------------------------------
(* Enumeration of the inputs a run reads *)

\* writeTokensToFile(&tokenResponse, sp.tokensFilePath) and the response
CallbackBody_store(c, sp, r) ==
    IF ~r.written THEN Out(c, sp, 500, "ErrSave")
    ELSE Out([c EXCEPT !.files[c.heap[sp].Name] = <<Tokens(r.access, r.refresh)>>],
             sp, StatusOK, "ok")

\* The reply is decoded into a Tokens, whatever its status, and
\* currentEnv.tokens = &tokenResponse
CallbackBody_reply(c, sp, r) ==
    IF r.status = NetErr THEN Out(c, sp, 400, "ErrRequest")
    ELSE IF ~r.decodes THEN Out(c, sp, 400, "ErrParse")
    ELSE CallbackBody_store([c EXCEPT !.heap[sp].tokens = <<Tokens(r.access, r.refresh)>>],
                            sp, r)

\* The Callback handler: sp := currentEnv
CallbackBody(c, sp, q) ==
    IF sp = NilPtr THEN Out(c, sp, 400, "ErrNoEnvironment")
    ELSE IF q.code = "" THEN Out(c, sp, 400, "ErrNoCode")
    ELSE CallbackBody_reply(Issue(Read(c, "exchange"), "exchange", sp,
                                  c.in.exchange.status, NoArg),
                            sp, c.in.exchange)

AlarmVolume == 60

\* fn of "alarm": currentEnv.playPlaylist(RelaxPlaylistUri, 60), the
\* current environment being the one at the time fn runs
AlarmBody(c, cur) ==
    Out(playPlaylist(c, cur, PlaylistUri, AlarmVolume, <<>>).c, NilPtr, 0, "")

\* fn of "sleep": currentEnv.pausePlayback()
SleepBody(c, cur) == Out(pausePlayback(c, cur).c, NilPtr, 0, "")

Run(job, in) ==
    CASE job.kind = "mw" ->
            MiddlewareBody(Ctx(job.heap, files, tasks, in), job.envs, currentEnv, job.q)
      [] job.kind = "transfer" ->
            TransferPlaybackBody(Ctx(job.heap, files, tasks, in), envs, currentEnv, job.q)
      [] job.kind = "volume" ->
            VolumeBody(Ctx(job.heap, files, tasks, in), envs, currentEnv, job.q)
      [] job.kind = "playlist" ->
            PlaylistBody(Ctx(job.heap, files, tasks, in), job.ptr, currentEnv,
                         job.uri, job.volume)
      [] job.kind \in {"play", "pause"} ->
            PlayPauseBody(Ctx(job.heap, files, tasks, in), envs, currentEnv, job.q, job.kind)
      [] job.kind = "playlistRoute" ->
            PlaylistHandler(Ctx(job.heap, files, tasks, in), envs, currentEnv, job.q)
      [] job.kind = "task" ->
            ShuffleRepeatBody(Ctx(job.heap, files, tasks, in), job.ptr)
      [] job.kind = "callback" ->
            CallbackBody(Ctx(job.heap, files, tasks, in), currentEnv, job.q)
      [] job.kind = "refresh" ->
            MiddlewareBody_refreshed(
                refreshToken(Ctx(job.heap, files, tasks, in), currentEnv, "mwRefresh"),
                currentEnv)
      [] job.kind = "alarm" ->
            AlarmBody(Ctx(job.heap, files, tasks, in), job.ptr)
      [] job.kind = "sleep" ->
            SleepBody(Ctx(job.heap, files, tasks, in), job.ptr)

RECURSIVE Flat(_)
Flat(lists) == IF lists = <<>> THEN <<>> ELSE Head(lists) \o Flat(Tail(lists))

\* The runs on the inputs that differ from in only in fields the run reads
\* and that are not decided yet, the input read first being decided first:
\* every behaviour of the run on any input is its behaviour on one of these.
RECURSIVE Explore(_, _, _)

Explore_need(job, in, decided, o, need) ==
    IF need = <<>> THEN <<o>>
    ELSE Flat([i \in 1..Len(Options[Head(need)]) |->
                 Explore(job, [in EXCEPT ![Head(need)] = Options[Head(need)][i]],
                         decided \cup {Head(need)})])

Explore_run(job, in, decided, o) ==
    Explore_need(job, in, decided, o, SelectSeq(o.c.used, LAMBDA g : g \notin decided))

Explore(job, in, decided) == Explore_run(job, in, decided, Run(job, in))

\* What a run can do, over all the inputs the outside world can give it,
\* as a list
Outcomes(job) == SelectSeq(Explore(job, Default, {}), LAMBDA o : o.c.feasible)

-----------------------------------------------------------------------------
(* The requests the model sends *)

NoQuery == [env |-> "", device_name |-> "", from |-> "", to |-> "", percentage |-> ""]

VolumeQueries ==
    { [NoQuery EXCEPT !.env = e, !.percentage = "50"] : e \in {"", Home, Main, "bogus"} }
    \cup { [NoQuery EXCEPT !.percentage = v] : v \in {"", "abc"} }
    \cup { [NoQuery EXCEPT !.device_name = "librespot", !.percentage = "50"] }

Transfer(f, t) == [NoQuery EXCEPT !.from = f, !.to = t]

TransferQueries ==
    { Transfer("librespot", "MacBook Air de Richard"),
      Transfer("MacBook Air de Richard", "librespot"),
      Transfer("librespot", "iPhone"),
      Transfer("MacBook Air de Richard", "MacBook Air de Richard"),
      Transfer("", "librespot"),
      Transfer("ghost", "librespot"),
      Transfer("librespot", "ghost") }

Queries(route) == IF route = "volume" THEN VolumeQueries ELSE TransferQueries

\* The routes the n+1-th protected request can take: a run transfers at
\* most once, with its first protected request
Routes(n) == IF n = 0 THEN {"volume", "transfer"} ELSE {"volume"}

Idle ==
    [stage |-> "idle", route |-> "", q |-> NoQuery, curBefore |-> NilPtr,
     status |-> 0, kind |-> "", src |-> NilPtr, dst |-> NilPtr, pre |-> 0,
     result |-> "", calls |-> <<>>, seen |-> <<>>, built |-> 0, err |-> <<>>]

NoTask == [stage |-> "none", env |-> NilPtr, calls |-> <<>>, panic |-> FALSE]

Serving == alive /\ bg.stage = "none"

-----------------------------------------------------------------------------
(* Actions *)

\* The tokens a token file holds when the program starts: each
\* environment has its own refresh token
StoredTokens(name) == Tokens("a0", IF name = Home THEN "rh" ELSE "rm")

\* No token file is under test
NoStore == [stage |-> "none", tokens |-> Tokens(<<>>, <<>>), data |-> <<>>, read |-> <<>>]

\* Nothing was handed to schedule
NoTimers == [stage |-> "none"]

\* No function is called on its own
NoCall == [stage |-> "none"]

NoConns == <<>>

Init ==
    /\ alive = TRUE
    /\ config \in {"absent", "full"}
    /\ heap = <<>>
    /\ envs = <<>>
    /\ currentEnv = NilPtr
    /\ \E present \in SUBSET EnvironmentName :
          files = [n \in EnvironmentName |->
                     IF n \in present THEN <<StoredTokens(n)>> ELSE <<>>]
    /\ tasks = <<>>
    /\ req = Idle
    /\ bg = NoTask
    /\ served = 0
    /\ store = NoStore
    /\ timers = NoTimers
    /\ applied = NoCall /\ inflight = NoConns

\* The Login handler for ?env=environment
LoginTo(environment) ==
    /\ Serving /\ req.stage = "idle"
    /\  LET n == new(heap, envs, config, files, environment)
            done == [Idle EXCEPT !.stage = "done", !.route = "login",
                                 !.q = [NoQuery EXCEPT !.env = environment],
                                 !.curBefore = currentEnv]
        IN IF environment \notin EnvironmentName
           THEN /\ req' = [done EXCEPT !.status = 400]
                /\ UNCHANGED <<alive, heap, envs, currentEnv>>
           ELSE IF n.fatal
           THEN /\ alive' = FALSE
                /\ req' = [done EXCEPT !.result = "fatal"]
                /\ UNCHANGED <<heap, envs, currentEnv>>
           ELSE /\ heap' = n.heap
                /\ envs' = n.envs
                /\ currentEnv' = n.ptr
                /\ req' = [done EXCEPT !.status = 307,
                                       !.built = IF n.built THEN 1 ELSE 0]
                /\ UNCHANGED alive
    /\ UNCHANGED <<config, files, tasks, bg, served, store, timers, inflight>>

\* GET /spotify/login?env=...: no middleware
Login ==
    /\ \E environment \in {"", Home, Main, "bogus"} : LoginTo(environment)
    /\ UNCHANGED applied

EnsureRegistered_new(r, n, name) ==
    [heap |-> n.heap, fatal |-> n.fatal,
     built |-> r.built + (IF n.built THEN 1 ELSE 0),
     envs |-> IF n.fatal THEN n.envs
              ELSE [k \in DOMAIN n.envs \cup {name} |->
                       IF k = name THEN n.ptr ELSE n.envs[k]]]

\* if envs[name] == nil { envs[name] = new(name) }
EnsureRegistered(r, cfg, fs, name) ==
    IF r.fatal \/ Lookup(r.envs, name) # NilPtr THEN r
    ELSE EnsureRegistered_new(r, new(r.heap, r.envs, cfg, fs, name), name)

\* The middleware of a protected route: both environments are registered,
\* the current one is chosen and refreshed, and the handler is next.
Middleware(route, q) ==
    /\ Serving /\ req.stage = "idle" /\ served < MaxRequests
    /\ served' = served + 1
    /\  \E r \in {EnsureRegistered(
                      EnsureRegistered([heap |-> heap, envs |-> envs,
                                        fatal |-> FALSE, built |-> 0],
                                       config, files, Home),
                      config, files, Main)} :
        LET start == [Idle EXCEPT !.route = route, !.q = q,
                                  !.curBefore = currentEnv, !.built = r.built]
        IN IF r.fatal
           THEN /\ alive' = FALSE
                /\ heap' = r.heap
                /\ envs' = r.envs
                /\ req' = [start EXCEPT !.stage = "done", !.result = "fatal"]
                /\ UNCHANGED <<currentEnv, files, tasks>>
           ELSE \E os \in {Outcomes([kind |-> "mw", heap |-> r.heap, envs |-> r.envs,
                                     q |-> q, ptr |-> NilPtr])} :
                \E i \in 1..Len(os) : LET o == os[i] IN
                /\ heap' = o.c.heap
                /\ envs' = r.envs
                /\ currentEnv' = o.cur
                /\ files' = o.c.files
                /\ tasks' = o.c.tasks
                /\ req' = [start EXCEPT
                             !.stage = IF o.c.panic THEN "done" ELSE "handler",
                             !.status = IF o.c.panic THEN 500 ELSE 0,
                             !.result = o.result, !.calls = o.c.calls,
                             !.seen = Seen(o.c), !.err = o.c.err]
                /\ UNCHANGED alive
    /\ UNCHANGED <<config, bg, store, timers, applied, inflight>>

SpotifyMiddleware == \E route \in Routes(served) : \E q \in Queries(route) : Middleware(route, q)

\* A handler, run by the middleware's c.Next(); a panic is recovered by
\* gin and answered with 500.
Handle(kind) ==
    /\ Serving /\ req.stage = "handler" /\ req.route = kind
    /\ \E os \in {Outcomes([kind |-> kind, heap |-> heap, envs |-> envs,
                             q |-> req.q, ptr |-> NilPtr])} :
       \E i \in 1..Len(os) : LET o == os[i] IN
        /\ heap' = o.c.heap
        /\ files' = o.c.files
        /\ tasks' = o.c.tasks
        /\ req' = [req EXCEPT !.stage = "done", !.status = o.status, !.kind = o.kind,
                              !.src = o.src, !.dst = o.dst, !.pre = o.pre,
                              !.result = o.result, !.calls = o.c.calls,
                              !.seen = Seen(o.c), !.err = o.c.err]
    /\ UNCHANGED <<alive, config, envs, currentEnv, bg, served, store, timers, applied, inflight>>

TransferPlayback == Handle("transfer")

Volume == Handle("volume")

\* The response is written and the request is over
Respond ==
    /\ Serving /\ req.stage = "done"
    /\ req' = Idle
    /\ UNCHANGED <<alive, config, heap, envs, currentEnv, files, tasks, bg, served, store, timers, applied, inflight>>

RemoveAt(q, i) == SubSeq(q, 1, i - 1) \o SubSeq(q, i + 1, Len(q))

\* The goroutine of playPlaylist, five seconds later; a panic in it ends
\* the process.  It runs between the steps of the requests; running it
\* between the end of a handler and the response, which touches nothing
\* the goroutine reads, would add no behaviour.
ShuffleRepeat ==
    /\ Serving /\ req.stage # "done"
    /\ \E i \in 1..Len(tasks) :
        \E os \in {Outcomes([kind |-> "task", heap |-> heap, envs |-> envs,
                             q |-> NoQuery, ptr |-> tasks[i]])} :
        \E j \in 1..Len(os) : LET o == os[j] IN
            /\ heap' = o.c.heap
            /\ files' = o.c.files
            /\ tasks' = RemoveAt(tasks, i)
            /\ alive' = ~o.c.panic
            /\ bg' = [stage |-> "done", env |-> tasks[i], calls |-> o.c.calls,
                      panic |-> o.c.panic]
    /\ UNCHANGED <<config, envs, currentEnv, req, served, store, timers, applied, inflight>>

\* The goroutine returns
TaskExit ==
    /\ alive /\ bg.stage = "done"
    /\ bg' = NoTask
    /\ UNCHANGED <<alive, config, heap, envs, currentEnv, files, tasks, req, served, store, timers, applied, inflight>>

Next ==
    \/ Login
    \/ SpotifyMiddleware
    \/ TransferPlayback
    \/ Volume
    \/ Respond
    \/ ShuffleRepeat
    \/ TaskExit

Spec == Init /\ [][Next]_vars

-----------------------------------------------------------------------------
(* What a finished transfer request shows *)

TransferDone(kind) == req.stage = "done" /\ req.route = "transfer" /\ req.kind = kind

\* The positions, in the calls of the request, of the calls the transfer
\* itself issued (those before are the handler's device-name resolution)
Own == (req.pre + 1)..Len(req.calls)

CallsOf(op, p) == {i \in Own : req.calls[i].op = op /\ req.calls[i].env = p}

CallsOn(p) == {i \in Own : req.calls[i].env = p}

Saw(field) == field \in DOMAIN req.seen

\* Both fetches of the soft transfer were answered with 200 or 204
SnapshotFetched ==
    /\ Saw("pbStatus") /\ req.seen.pbStatus \in {StatusOK, StatusNoContent}
    /\ Saw("uqStatus") /\ req.seen.uqStatus \in {StatusOK, StatusNoContent}

FetchedQueue == IF req.seen.uqStatus = StatusOK THEN req.seen.uqQueue ELSE <<>>

FetchedCurrent ==
    IF req.seen.uqStatus = StatusOK /\ Saw("uqCurrent") THEN req.seen.uqCurrent ELSE ""

\* is_playing of the snapshot is false: a 204 has no body, and the flag is
\* read whenever the queue has a track
SnapshotNotPlaying ==
    req.seen.pbStatus = StatusNoContent \/ (Saw("pbPlaying") /\ ~req.seen.pbPlaying)

SnapshotPlaying == req.seen.pbStatus = StatusOK /\ Saw("pbPlaying") /\ req.seen.pbPlaying

NoPauseNoPlay == CallsOf("pause", req.src) = {} /\ CallsOf("play", req.dst) = {}

PausedOK(i) == req.calls[i].status = StatusOK

RefreshFails(r) == r.status # StatusOK \/ r.access = "" \/ ~r.written

-----------------------------------------------------------------------------
(* Claims *)

\* C1: transferPlayback, whenever the fetched queue of the source is empty
\* or the playback snapshot of the source is not playing, returns success
\* and issues neither a pause on the source nor a play on the destination.
C1_NoOpSuccess ==
    (TransferDone("soft") /\ SnapshotFetched
        /\ (Len(FetchedQueue) = 0 \/ SnapshotNotPlaying))
    => (req.result = "ok" /\ req.status = StatusOK /\ NoPauseNoPlay)

\* A transfer that found tracks queued on a source that is not playing
C1_Witness ==
    /\ TransferDone("soft") /\ SnapshotFetched
    /\ Len(FetchedQueue) > 0 /\ SnapshotNotPlaying /\ req.seen.pbStatus = StatusOK
    /\ req.result = "ok"

\* C2: in transferPlayback a play on the destination is issued only after
\* the pause on the source was answered with 200 in the same transfer; when
\* the pause errors or is answered with another status, the transfer
\* returns an error and no play on the destination is issued.
C2_PlayOnlyAfterPause ==
    TransferDone("soft") =>
        /\ \A i \in CallsOf("play", req.dst) :
              \E j \in CallsOf("pause", req.src) : j < i /\ PausedOK(j)
        /\ (\E j \in CallsOf("pause", req.src) : ~PausedOK(j))
              => (req.result = "ErrPause" /\ req.status = 502
                    /\ CallsOf("play", req.dst) = {})

\* A transfer whose pause was answered, but not with 200
C2_Witness ==
    /\ TransferDone("soft")
    /\ \E j \in CallsOf("pause", req.src) : req.calls[j].status = StatusNoContent
    /\ req.result = "ErrPause"

\* C3: transferPlayback refreshes the token of the destination before
\* anything else; when the refresh fails the transfer returns an error and
\* issues no playback fetch, no queue fetch, no pause and no play.
C3_RefreshFirst ==
    TransferDone("soft") =>
        /\ Own # {} => (req.calls[req.pre + 1].op = "token"
                          /\ req.calls[req.pre + 1].env = req.dst)
        /\ (Saw("refresh") /\ RefreshFails(req.seen.refresh))
              => (req.result = "ErrRefresh" /\ req.status = 502
                    /\ \A i \in Own : req.calls[i].op = "token")

\* A transfer whose refresh was answered with 401
C3_Witness ==
    /\ TransferDone("soft")
    /\ Saw("refresh") /\ req.seen.refresh.status = 401
    /\ req.result = "ErrRefresh"

AllEmpty(queue) == \A i \in 1..Len(queue) : queue[i] = ""

\* C4, as stated: transferPlayback on a playing source whose queue is not
\* empty but holds only tracks with an empty uri returns the "no valid
\* URIs" error and issues no pause and no play.
C4_AsStated ==
    (TransferDone("soft") /\ SnapshotFetched /\ SnapshotPlaying
        /\ Len(FetchedQueue) > 0 /\ AllEmpty(FetchedQueue))
    => (req.result = "ErrNoValidUris" /\ NoPauseNoPlay)

\* C4, amended: transferPlayback on a playing source whose queue is not
\* empty but holds only tracks with an empty uri, and whose currently
\* playing track has an empty uri too, returns the "no valid URIs" error,
\* which is not the success of the empty-queue no-op, and issues no pause
\* and no play.
C4_NoValidUris ==
    (TransferDone("soft") /\ SnapshotFetched /\ SnapshotPlaying
        /\ Len(FetchedQueue) > 0 /\ AllEmpty(FetchedQueue) /\ FetchedCurrent = "")
    => (req.result = "ErrNoValidUris" /\ req.status = 502 /\ NoPauseNoPlay)

\* A transfer of two queued tracks without uri after a current track
\* without uri
C4_Witness ==
    /\ TransferDone("soft") /\ SnapshotFetched /\ SnapshotPlaying
    /\ FetchedQueue = <<"", "">> /\ Saw("uqCurrent") /\ FetchedCurrent = ""
    /\ req.result = "ErrNoValidUris"

\* C5, as stated: transferPlayback fails with "no valid URIs" only when
\* the filtered list (the uri of the current track when not empty, then
\* every queued uri that is not empty) is empty.
C5_AsStated ==
    (TransferDone("soft") /\ req.result = "ErrNoValidUris")
    => (FetchedCurrent = "" /\ AllEmpty(FetchedQueue))

\* The playback fetch of the hard transfer was answered with 200 or 204
PlaybackFetched == Saw("pbStatus") /\ req.seen.pbStatus \in {StatusOK, StatusNoContent}

\* The context uri of the fetched playback is empty, or was never read, in
\* which case the request did what it does on an empty one
ContextEmpty ==
    req.seen.pbStatus = StatusNoContent \/ ~Saw("pbContext")
        \/ req.seen.pbContext = EmptyUri

PlayFailedAt(i) ==
    /\ i \in CallsOf("play", req.dst)
    /\ req.calls[i].status \notin {StatusOK, StatusNoContent}

\* C7, as stated: when the pause of the source succeeds and starting the
\* playback on the destination then fails, the transfer returns an error
\* and no play is issued to the source afterwards.
C7_AsStated ==
    (req.stage = "done" /\ req.route = "transfer" /\ req.kind \in {"soft", "hard"})
    => \A i \in Own :
          (PlayFailedAt(i) /\ \E j \in CallsOf("pause", req.src) : j < i /\ PausedOK(j))
          => /\ req.result # "ok" /\ req.status = 502
             /\ \A k \in CallsOf("play", req.src) : k <= i

\* C8: after logins and request resolutions run one at a time, the
\* registry holds at most one instance per name, every resolution yields
\* the registered instance, and a resolution of a registered name
\* constructs nothing.
C8_OneInstancePerName ==
    /\ \A name \in EnvironmentName :
          /\ Cardinality(Instances(heap, name)) <= 1
          /\ name \in DOMAIN envs => envs[name] \in Instances(heap, name)
    /\ DOMAIN envs \subseteq EnvironmentName
    /\ currentEnv # NilPtr => \E name \in DOMAIN envs : envs[name] = currentEnv
    /\ (req.stage = "done" /\ req.route = "login" /\ req.status = 307)
          => currentEnv = envs[req.q.env]

\* A second login to an environment, which constructs nothing
C8_Witness ==
    /\ req.stage = "done" /\ req.route = "login" /\ req.status = 307
    /\ req.built = 0 /\ req.curBefore = currentEnv

\* C9, as stated: when a request names neither an environment nor a device
\* and no current environment was set before, the middleware makes "home"
\* the current environment before it refreshes the token and runs the
\* handler.
C9_AsStated ==
    (/\ req.stage \in {"handler", "done"} /\ req.route \in {"volume", "transfer"}
     /\ req.result # "fatal"
     /\ req.q.env = "" /\ req.q.device_name = "" /\ req.q.from = ""
     /\ req.curBefore = NilPtr)
    => (currentEnv # NilPtr /\ currentEnv = Lookup(envs, Home))

\* C10, as stated: a failure to construct an environment for want of its
\* configuration is reported for that environment only, and the process
\* keeps running.
C10_AsStated == config = "absent" => alive

-----------------------------------------------------------------------------
(* Token store, byte by byte.  A string is the sequence of its characters; *)
(* the words access_token and refresh_token count as one character each.  *)

MaxTokenLen == 2

Chars == {"x", "y", ":", " ", "\n"}

Strings == SeqsUpTo(Chars, MaxTokenLen)

\* strings.Index for a one-character separator: 0 when absent
IndexOf(s, ch) == First({i \in 1..Len(s) : s[i] = ch})

\* strings.Split / strings.SplitSeq
RECURSIVE Split(_, _)

Split_at(s, sep, i) ==
    IF i = 0 THEN <<s>>
    ELSE <<SubSeq(s, 1, i - 1)>> \o Split(SubSeq(s, i + 1, Len(s)), sep)

Split(s, sep) == Split_at(s, sep, IndexOf(s, sep))

\* strings.SplitN(s, sep, 2)
SplitN2_at(s, i) ==
    IF i = 0 THEN <<s>> ELSE <<SubSeq(s, 1, i - 1), SubSeq(s, i + 1, Len(s))>>

\* A mutant of SplitN2: the line is split at every colon.
SplitN2_all(s, sep) == Split(s, sep)

SplitN2(s, sep) == SplitN2_at(s, IndexOf(s, sep))

IsSpace(ch) == ch \in {" ", "\n"}

\* strings.TrimSpace
RECURSIVE TrimLeft(_)
TrimLeft(s) == IF s # <<>> /\ IsSpace(Head(s)) THEN TrimLeft(Tail(s)) ELSE s

RECURSIVE TrimRight(_)
TrimRight(s) ==
    IF s # <<>> /\ IsSpace(s[Len(s)]) THEN TrimRight(SubSeq(s, 1, Len(s) - 1)) ELSE s

TrimSpace(s) == TrimRight(TrimLeft(s))

\* data := "access_token:" + access + "\n" + "refresh_token:" + refresh + "\n"
writeTokensToFile_data(tokensLines) ==
    <<"access_token", ":">> \o tokensLines.AccessToken \o <<"\n">>
        \o <<"refresh_token", ":">> \o tokensLines.RefreshToken \o <<"\n">>

\* The loop of readTokensFromFile over the lines of the file: a line with a
\* colon sets the token its key names, and the loop ends once both are set
RECURSIVE readTokensFromFile_lines(_, _)

readTokensFromFile_set(lines, result) ==
    IF result.AccessToken # <<>> /\ result.RefreshToken # <<>> THEN result
    ELSE readTokensFromFile_lines(Tail(lines), result)

readTokensFromFile_line(lines, result, key, value) ==
    readTokensFromFile_set(lines,
        IF key = <<"access_token">> THEN [result EXCEPT !.AccessToken = value]
        ELSE IF key = <<"refresh_token">> THEN [result EXCEPT !.RefreshToken = value]
        ELSE result)

readTokensFromFile_split(lines, result, elements) ==
    IF Len(elements) = 2
    THEN readTokensFromFile_line(lines, result, TrimSpace(elements[1]),
                                 TrimSpace(elements[2]))
    ELSE readTokensFromFile_lines(Tail(lines), result)

readTokensFromFile_lines(lines, result) ==
    IF lines = <<>> THEN result
    ELSE readTokensFromFile_split(lines, result, SplitN2(Head(lines), ":"))

\* if result.RefreshToken == "" { return nil, error }
readTokensFromFile_result(result) ==
    IF result.RefreshToken = <<>> THEN <<>> ELSE <<result>>

\* readTokensFromFile on the bytes of a file that exists
readTokensFromFile_parse(data) ==
    readTokensFromFile_result(
        readTokensFromFile_lines(Split(data, "\n"), Tokens(<<>>, <<>>)))

\* The gateway is not running
GatewayDown ==
    /\ alive = TRUE /\ config = "full" /\ heap = <<>> /\ envs = <<>>
    /\ currentEnv = NilPtr /\ files = [n \in EnvironmentName |-> <<>>]
    /\ tasks = <<>> /\ req = Idle /\ bg = NoTask /\ served = 0

gateway == <<alive, config, heap, envs, currentEnv, files, tasks, req, bg, served>>

TokenInit ==
    /\ GatewayDown
    /\ timers = NoTimers /\ applied = NoCall /\ inflight = NoConns
    /\ \E a \in Strings, r \in Strings :
          store = [NoStore EXCEPT !.stage = "new", !.tokens = Tokens(a, r)]

\* writeTokensToFile(&tokens, fileName); os.WriteFile may fail
WriteTokens ==
    /\ store.stage = "new"
    /\ \E ok \in BOOLEAN :
          store' = IF ok THEN [store EXCEPT !.stage = "written",
                                            !.data = writeTokensToFile_data(store.tokens)]
                   ELSE [store EXCEPT !.stage = "unwritten"]
    /\ UNCHANGED <<gateway, timers, applied, inflight>>

\* readTokensFromFile(fileName) on the file just written
ReadTokens ==
    /\ store.stage = "written"
    /\ store' = [store EXCEPT !.stage = "read",
                              !.read = readTokensFromFile_parse(store.data)]
    /\ UNCHANGED <<gateway, timers, applied, inflight>>

TokenNext == WriteTokens \/ ReadTokens

TokenSpec == TokenInit /\ [][TokenNext]_vars

\* A token is clean when it has no line break and no white space at either
\* end
Clean(s) == TrimSpace(s) = s /\ IndexOf(s, "\n") = 0

\* C11, as stated: for every Tokens value, writeTokensToFile followed by
\* readTokensFromFile on the same file succeeds and returns the access and
\* refresh strings that were written.
C11_AsStated == store.stage = "read" => store.read = <<store.tokens>>

\* C11, amended: for every Tokens value whose refresh token is not empty
\* and whose two strings have no line break and no white space at either
\* end, writeTokensToFile followed by readTokensFromFile on the same file
\* succeeds and returns the access and refresh strings that were written.
C11_RoundTrip ==
    (store.stage = "read" /\ store.tokens.RefreshToken # <<>>
        /\ Clean(store.tokens.AccessToken) /\ Clean(store.tokens.RefreshToken))
    => store.read = <<store.tokens>>

\* A round trip of tokens that hold a colon and an inner space
C11_Witness ==
    /\ store.stage = "read"
    /\ store.tokens = Tokens(<<"x", ":">>, <<":", "y">>)
    /\ store.read = <<store.tokens>>

-----------------------------------------------------------------------------
(* Token refresh *)

\* The tokens of an environment after a refresh that issued access: the new
\* access token beside the refresh token the environment started with
Refreshed(p, access) == <<Tokens(access, StoredTokens(heap[p].Name).RefreshToken)>>

\* The middleware refreshed the token of the current environment without
\* error and the handler is about to run
MiddlewareRefreshed == req.stage = "handler" /\ req.result = "ok"

\* C12: after a successful refreshToken the access token in memory and the
\* one in the token file are the newly issued value, and the refresh token
\* is unchanged in memory and in the file.
C12_RefreshStores ==
    /\ MiddlewareRefreshed =>
          /\ Saw("mwRefresh")
          /\ heap[currentEnv].tokens = Refreshed(currentEnv, req.seen.mwRefresh.access)
          /\ files[heap[currentEnv].Name] = heap[currentEnv].tokens
    /\ (TransferDone("soft") /\ Saw("refresh") /\ req.result # "ErrRefresh") =>
          /\ heap[req.dst].tokens = Refreshed(req.dst, req.seen.refresh.access)
          /\ files[heap[req.dst].Name] = heap[req.dst].tokens

\* The token of main was refreshed by the middleware
C12_Witness ==
    /\ MiddlewareRefreshed
    /\ heap[currentEnv].Name = Main
    /\ files[Main] = <<Tokens("a1", "rm")>>

\* The middleware took its step and the token endpoint answered its
\* refreshToken with a status other than 200
BadResponse ==
    /\ req.stage = "idle" /\ req'.stage = "handler"
    /\ "mwRefresh" \in DOMAIN req'.seen
    /\ req'.seen.mwRefresh.status \notin {StatusOK, NetErr}

\* The tokens of the environment at p before the step; an environment
\* registered by the step starts with the tokens of its file
TokensBefore(p) ==
    IF p \in DOMAIN heap THEN heap[p].tokens
    ELSE readTokensFromFile(files[heap'[p].Name])

\* C13: when the token endpoint answers with a status other than 200,
\* refreshToken returns an error that carries the status and the body, and
\* the tokens in memory and the token file are unchanged.
C13_BadResponse ==
    [][BadResponse =>
          /\ req'.err = <<[msg |-> "bad response",
                           status |-> req'.seen.mwRefresh.status,
                           body |-> req'.seen.mwRefresh.body]>>
          /\ heap'[currentEnv'].tokens = TokensBefore(currentEnv')
          /\ files' = files]_vars

\* The refresh of the middleware was answered with 401 and a body
C13_Witness ==
    /\ req.stage = "handler"
    /\ Saw("mwRefresh") /\ req.seen.mwRefresh.status = 401
    /\ req.err = <<[msg |-> "bad response", status |-> 401, body |-> "invalid_client"]>>
    /\ heap[currentEnv].tokens = <<StoredTokens(heap[currentEnv].Name)>>

\* C14, as stated: when the refresh at the top of a protected request
\* fails, the request is aborted with an unauthorized-class response and
\* the handler never executes.
C14_AsStated ==
    (Saw("mwRefresh") /\ RefreshFails(req.seen.mwRefresh))
    => (req.stage = "done" /\ req.status = 401)

-----------------------------------------------------------------------------
(* Scheduler.  Times are in milliseconds, on a grid of deltaMilli. *)

deltaMilli == 100

MaxStart == 10

MaxDelta == 10

\* The times at which schedule may be called
StartTimes == {k * deltaMilli : k \in 0..MaxStart}

\* epochMillis, relative to the time of the call
Deltas == {k * deltaMilli : k \in (0 - MaxDelta)..MaxDelta}

\* The clock stops after every sleep the model can start is over
Horizon == (MaxStart + MaxDelta) * deltaMilli + 1000

\* The division of Go's int: the quotient is truncated toward zero
Quo(a, b) == IF a >= 0 THEN a \div b ELSE 0 - ((0 - a) \div b)

\* seconds := epochMillis/1000 - int(time.Now().UnixMilli())/1000
schedule_seconds(epochMillis, now) == Quo(epochMillis, 1000) - Quo(now, 1000)

\* A mutant of schedule: nothing is started either when seconds is zero.
schedule_positiveOnly(t, epochMillis, seconds) ==
    IF seconds <= 0
    THEN [t EXCEPT !.stage = "dropped", !.epochMillis = epochMillis, !.calledAt = t.now]
    ELSE [t EXCEPT !.stage = "sleeping", !.epochMillis = epochMillis,
                   !.calledAt = t.now, !.wakeAt = t.now + seconds * 1000]

\* schedule: nothing is started when seconds is negative; otherwise a
\* goroutine is started that sleeps seconds and calls action, and schedule
\* returns
schedule(t, epochMillis, seconds) ==
    IF seconds < 0
    THEN [t EXCEPT !.stage = "dropped", !.epochMillis = epochMillis, !.calledAt = t.now]
    ELSE [t EXCEPT !.stage = "sleeping", !.epochMillis = epochMillis,
                   !.calledAt = t.now, !.wakeAt = t.now + seconds * 1000]

SchedInit ==
    /\ GatewayDown
    /\ store = NoStore /\ applied = NoCall /\ inflight = NoConns
    /\ \E now \in StartTimes :
          timers = [stage |-> "idle", now |-> now, epochMillis |-> 0, calledAt |-> 0,
                    wakeAt |-> 0, invoked |-> 0]

\* schedule(epochMillis, action) is called and returns
Schedule ==
    /\ timers.stage = "idle"
    /\ \E d \in Deltas :
          timers' = schedule(timers, timers.now + d,
                             schedule_seconds(timers.now + d, timers.now))
    /\ UNCHANGED <<gateway, store, applied, inflight>>

\* schedule was called and has returned
Scheduled == timers.stage \in {"dropped", "sleeping", "fired"}

\* Time passes after the call
Tick ==
    /\ Scheduled /\ timers.now < Horizon
    /\ timers' = [timers EXCEPT !.now = @ + deltaMilli]
    /\ UNCHANGED <<gateway, store, applied, inflight>>

\* The goroutine: time.Sleep is over and action is called
Fire ==
    /\ timers.stage = "sleeping" /\ timers.now >= timers.wakeAt
    /\ timers' = [timers EXCEPT !.stage = "fired", !.invoked = @ + 1]
    /\ UNCHANGED <<gateway, store, applied, inflight>>

SchedNext == Schedule \/ Tick \/ Fire

SchedSpec == SchedInit /\ [][SchedNext]_vars

\* The clock advances and the Go scheduler runs a goroutine that can run
SchedFair == SchedSpec /\ WF_vars(Tick) /\ WF_vars(Fire)

\* C15, as stated: schedule(epochMillis, action) with epochMillis earlier
\* than the current time never invokes action, also when epochMillis is
\* less than one second in the past.
C15_AsStated ==
    (Scheduled /\ timers.epochMillis < timers.calledAt) => timers.invoked = 0

\* C16: schedule(epochMillis, action) with epochMillis in the future
\* eventually invokes action, exactly once, and the caller is not blocked:
\* schedule has returned while action is still to be invoked.
C16_FutureInvokedOnce ==
    /\ (Scheduled /\ timers.epochMillis > timers.calledAt) ~> (timers.invoked = 1)
    /\ [](Scheduled => timers.invoked <= 1)
    /\ [][(timers.stage = "idle" /\ timers'.stage # "idle"
              /\ timers'.epochMillis > timers'.calledAt)
           => (timers'.stage = "sleeping" /\ timers'.invoked = 0
                 /\ timers'.now = timers.now)]_vars
    /\ [][timers.stage = "fired" => timers'.invoked = timers.invoked]_vars

\* action was invoked after a sleep of one second, for a time 100 ms ahead
C16_Witness ==
    /\ timers.stage = "fired" /\ timers.invoked = 1
    /\ timers.calledAt = 900 /\ timers.epochMillis = 1000 /\ timers.now = 1900

-----------------------------------------------------------------------------
(* Playlists: playPlaylist as the Playlist handler calls it, without       *)
(* explicit offset, on the environments of a gateway that has registered   *)
(* both.                                                                   *)

\* c.DefaultQuery("volume", "80")
PlaylistVolume == 80

Registered(fs) ==
    EnsureRegistered(EnsureRegistered([heap |-> <<>>, envs |-> <<>>,
                                       fatal |-> FALSE, built |-> 0],
                                      "full", fs, Home),
                     "full", fs, Main)

PlaylistInit ==
    /\ alive = TRUE /\ config = "full"
    /\ \E present \in SUBSET EnvironmentName :
          files = [n \in EnvironmentName |->
                     IF n \in present THEN <<StoredTokens(n)>> ELSE <<>>]
    /\ heap = Registered(files).heap
    /\ envs = Registered(files).envs
    /\ currentEnv = NilPtr
    /\ tasks = <<>> /\ req = Idle /\ bg = NoTask /\ served = 0
    /\ store = NoStore /\ timers = NoTimers /\ applied = NoCall /\ inflight = NoConns

\* sp.playPlaylist(uri, volume)
PlayPlaylist ==
    /\ Serving /\ req.stage = "idle" /\ served < MaxRequests
    /\ served' = served + 1
    /\ \E name \in EnvironmentName, uri \in {PlaylistUri, AlbumUri} :
        \E os \in {Outcomes([kind |-> "playlist", heap |-> heap, envs |-> envs,
                             q |-> NoQuery, ptr |-> envs[name], uri |-> uri,
                             volume |-> PlaylistVolume])} :
        \E i \in 1..Len(os) : LET o == os[i] IN
            /\ heap' = o.c.heap
            /\ files' = o.c.files
            /\ tasks' = o.c.tasks
            /\ req' = [Idle EXCEPT !.stage = "done", !.route = "playlist",
                                   !.status = o.status, !.result = o.result,
                                   !.src = envs[name], !.calls = o.c.calls,
                                   !.seen = Seen(o.c), !.err = o.c.err]
    /\ UNCHANGED <<alive, config, envs, currentEnv, bg, store, timers, applied, inflight>>

PlaylistNext == PlayPlaylist \/ Respond \/ ShuffleRepeat \/ TaskExit

PlaylistSpec == PlaylistInit /\ [][PlaylistNext]_vars

PlaylistDone == req.stage = "done" /\ req.route = "playlist"

\* The draws of rand.Intn and the PUTs to the play endpoint of the request
Draws == {i \in DOMAIN req.calls : req.calls[i].op = "rand"}

Plays == {i \in DOMAIN req.calls : req.calls[i].op = "play"}

\* C17: playPlaylist without explicit offset, for a playlist whose
\* tracks.total is N >= 1: the offset it sends is in [0, N), it is drawn
\* once per call, and it is 0 when N = 1.
C17_RandomOffset ==
    (PlaylistDone /\ Saw("plTotal") /\ req.seen.plTotal >= 1) =>
        /\ Cardinality(Draws) = 1
        /\ \A d \in Draws :
              /\ req.calls[d].status \in 0..(req.seen.plTotal - 1)
              /\ req.seen.plTotal = 1 => req.calls[d].status = 0
              /\ \A i \in Plays : req.calls[i].arg.offset = <<req.calls[d].status>>

\* A playlist of two tracks was started at its second track
C17_Witness ==
    /\ PlaylistDone /\ Saw("plTotal") /\ req.seen.plTotal = 2
    /\ \E i \in Plays : req.calls[i].arg.offset = <<1>>
    /\ req.result = "ok"

-----------------------------------------------------------------------------
(* Device resolution *)

\* The reply to the device fetches of the handler, which all go to the
\* account of the current environment
LiveOf(p) == IF heap[p].Name = Main THEN "liveMain" ELSE "liveHome"

\* The Volume handler has run setVolume and the devices were fetched
VolumeSet ==
    /\ req.stage = "done" /\ req.route = "volume"
    /\ currentEnv # NilPtr /\ Saw(LiveOf(currentEnv))
    /\ req.seen[LiveOf(currentEnv)].ok

LiveList == req.seen[LiveOf(currentEnv)].devices

Unsupported == <<[msg |-> "device doesn't support volume", status |-> 0, body |-> ""]>>

VolumePuts == {i \in DOMAIN req.calls : req.calls[i].op = "volume"}

FirstStatic == StaticDevices(heap[currentEnv].Name)[1]

\* C18, as stated: when the API flags no device as active, the resolution
\* of the active device returns the first statically configured device of
\* the environment, whatever the live list holds, also when it is empty:
\* setVolume then acts on that device.
C18_AsStated ==
    (VolumeSet /\ FirstActive(LiveList) = 0) =>
        /\ req.status = StatusOK
        /\ IF FirstStatic.SupportsVolume
           THEN /\ VolumePuts # {}
                /\ \A i \in VolumePuts :
                      req.calls[i].arg.device_id =
                          getDeviceId_first(LiveList,
                              First({k \in 1..Len(LiveList) :
                                       LiveList[k].Name = FirstStatic.Name
                                         /\ LiveList[k].ID # ""}))
           ELSE req.err = Unsupported /\ VolumePuts = {}

\* The names in the device list of the environment at p
Listed_names(p) == {heap[p].Devices[i] : i \in 1..Len(heap[p].Devices)}

StaticNames(name) == {StaticDevices(name)[i].Name : i \in 1..Len(StaticDevices(name))}

\* C19, as stated: after any sequence of playback operations the device
\* list of every environment still contains its statically configured
\* device names, so that getEnvFromDeviceName keeps resolving each of them.
C19_AsStated ==
    /\ \A p \in DOMAIN heap : StaticNames(heap[p].Name) \subseteq Listed_names(p)
    /\ (req.stage = "handler" /\ req.q.device_name = "librespot")
          => currentEnv = envs[Home]

\* C20: setVolume on an environment whose active device lacks the volume
\* capability returns the "unsupported" error and issues no volume PUT.
C20_Unsupported ==
    (VolumeSet /\ FirstActive(LiveList) # 0
        /\ ~LiveList[FirstActive(LiveList)].SupportsVolume)
    => (req.err = Unsupported /\ VolumePuts = {})

\* The active device of main is an iPhone, which has no volume control
C20_Witness ==
    /\ VolumeSet /\ heap[currentEnv].Name = Main
    /\ FirstActive(LiveList) = 2 /\ LiveList[2].Name = "iPhone"
    /\ req.err = Unsupported /\ req.status = StatusOK

-----------------------------------------------------------------------------
(* The goroutine of playPlaylist *)

\* The PUTs of the goroutine that has just ended
ShuffleCalls ==
    {i \in DOMAIN bg.calls : bg.calls[i].op = "shuffle" /\ bg.calls[i].arg.state = "true"}

RepeatCalls ==
    {i \in DOMAIN bg.calls : bg.calls[i].op = "repeat" /\ bg.calls[i].arg.state = "context"}

\* C21, as stated: for one playPlaylist invocation the shuffle-enable call
\* and the repeat-context call are each issued exactly once, only after
\* the play call of that invocation was issued, and the caller does not
\* wait for them.
C21_AsStated ==
    /\ bg.stage = "done" =>
          (Cardinality(ShuffleCalls) = 1 /\ Cardinality(RepeatCalls) = 1)
    /\ (PlaylistDone /\ served = 1 /\ tasks # <<>>) =>
          (Plays # {} /\ bg.stage = "none")

-----------------------------------------------------------------------------
(* The Play, Pause and Playlist routes *)

PlayerQuery(env, deviceName, uri) ==
    [env |-> env, device_name |-> deviceName, from |-> "", to |-> "",
     percentage |-> "", uri |-> uri, volume |-> "50"]

\* "ghost" is a device of no environment
PlayerQueries(route) ==
    {PlayerQuery(env, d, IF route = "playlistRoute" THEN uri ELSE EmptyUri) :
        env \in {"", Home}, d \in {"", "librespot", "ghost"},
        uri \in IF route = "playlistRoute" THEN {EmptyUri, PlaylistUri} ELSE {EmptyUri}}

PlayerMiddleware ==
    \E route \in {"play", "pause", "playlistRoute"} :
        \E q \in PlayerQueries(route) : Middleware(route, q)

Play == Handle("play")

Pause == Handle("pause")

Playlist == Handle("playlistRoute")

PlayerNext ==
    \/ PlayerMiddleware
    \/ Play
    \/ Pause
    \/ Playlist
    \/ Respond
    \/ ShuffleRepeat
    \/ TaskExit

PlayerSpec == Init /\ [][PlayerNext]_vars

\* The request named home, whose tokens are loaded: the middleware has
\* refreshed them and called the handler
MiddlewarePassed ==
    /\ alive /\ req.q.env = Home
    /\ currentEnv # NilPtr /\ heap[currentEnv].tokens # <<>>

\* The calls that start, stop or change playback
PlaybackOps == {"play", "pause", "volume", "shuffle", "repeat"}

\* C22, as stated: a Play, Pause or Playlist request that names a device of
\* no environment is answered with a not-found or validation error (a 4xx
\* status) and issues no playback call; it never dereferences a missing
\* environment, so it does not panic.
C22_AsStated ==
    (req.stage = "done" /\ req.route \in {"play", "pause", "playlistRoute"}
        /\ req.q.device_name = "ghost" /\ MiddlewarePassed)
    => /\ req.status \in {400, 404}
       /\ req.result # "panic"
       /\ \A i \in DOMAIN req.calls : req.calls[i].op \notin PlaybackOps

-----------------------------------------------------------------------------
(* getTrackNumber on a playlist of the API: a list of tracks served in     *)
(* pages of MaxPageItems items, each page announcing whether one follows.  *)

Min(a, b) == IF a <= b THEN a ELSE b

\* The k-th page of the listing and whether a page follows it
PageOf(tracks, k) ==
    SubSeq(tracks, (k - 1) * MaxPageItems + 1, Min(k * MaxPageItems, Len(tracks)))

HasNext(tracks, k) == k * MaxPageItems < Len(tracks)

PageNumber(f) == First({k \in 1..MaxPages : f = PageField(k) \/ f = NextField(k)})

\* The replies of the API for the listing
ListingInput(tracks) ==
    [f \in DOMAIN Default |->
        IF PageNumber(f) = 0 THEN Default[f]
        ELSE IF f = PageField(PageNumber(f))
        THEN [ok |-> TRUE, items |-> PageOf(tracks, PageNumber(f))]
        ELSE HasNext(tracks, PageNumber(f))]

\* Both environments are registered with their tokens and nothing runs
GatewayReady ==
    /\ alive = TRUE /\ config = "full"
    /\ files = [n \in EnvironmentName |-> <<StoredTokens(n)>>]
    /\ heap = Registered(files).heap
    /\ envs = Registered(files).envs
    /\ currentEnv = NilPtr
    /\ tasks = <<>> /\ req = Idle /\ bg = NoTask /\ served = 0
    /\ store = NoStore /\ timers = NoTimers /\ inflight = NoConns

TrackInit ==
    /\ GatewayReady
    /\ \E tracks \in SeqsUpTo(TrackNames, MaxPages * MaxPageItems),
          trackName \in TrackNames \cup {""},
          playlistUri \in {PlaylistUri, AlbumUri, EmptyUri} :
          applied = [stage |-> "new", tracks |-> tracks, trackName |-> trackName,
                     playlistUri |-> playlistUri, n |-> 0, calls |-> <<>>]

\* sp.getTrackNumber(playlistUri, trackName) returns
GetTrackNumber ==
    /\ applied.stage = "new"
    /\ \E r \in {getTrackNumber(Ctx(heap, files, tasks, ListingInput(applied.tracks)),
                                 envs[Main], applied.playlistUri, applied.trackName)} :
          applied' = [applied EXCEPT !.stage = "done", !.n = r.n, !.calls = r.c.calls]
    /\ UNCHANGED <<gateway, store, timers, inflight>>

\* The listing is looked at again
TrackAgain ==
    /\ applied.stage = "done"
    /\ applied' = [applied EXCEPT !.stage = "new", !.n = 0, !.calls = <<>>]
    /\ UNCHANGED <<gateway, store, timers, inflight>>

TrackNext == GetTrackNumber \/ TrackAgain

TrackSpec == TrackInit /\ [][TrackNext]_vars

\* The one-based position of the first track of the listing with the name,
\* 0 for none
FirstNamed(tracks, name) == First({i \in 1..Len(tracks) : tracks[i] = name})

\* The number of pages of the listing; an empty listing has one empty page
PageCount(tracks) ==
    IF tracks = <<>> THEN 1 ELSE (Len(tracks) + MaxPageItems - 1) \div MaxPageItems

\* C23: getTrackNumber terminates for every finite paginated track listing
\* (it asks for no more pages than the listing has, each at the offset
\* where the page before it ended) and returns the zero-based position,
\* counted across all pages, of the first track that has the given name,
\* or 0 when no page contains it.
C23_PositionAcrossPages ==
    (applied.stage = "done" /\ "tracks" \in DOMAIN applied
        /\ applied.playlistUri = PlaylistUri)
    => /\ applied.n = IF FirstNamed(applied.tracks, applied.trackName) = 0 THEN 0
                      ELSE FirstNamed(applied.tracks, applied.trackName) - 1
       /\ Len(applied.calls) <= PageCount(applied.tracks)
       /\ \A k \in DOMAIN applied.calls :
             /\ applied.calls[k].op = "tracks"
             /\ applied.calls[k].arg.offset = (k - 1) * MaxPageItems

\* A track was found on a page after the first, past the first page's items
C23_Witness ==
    /\ applied.stage = "done" /\ "tracks" \in DOMAIN applied
    /\ applied.playlistUri = PlaylistUri
    /\ applied.n >= MaxPageItems
    /\ applied.n = FirstNamed(applied.tracks, applied.trackName) - 1
    /\ Len(applied.calls) > 1

-----------------------------------------------------------------------------
(* parsePlaylistId on the uris of TestParsePlaylistId and their like.      *)

MaxSections == 4

\* The sections a uri is made of, between its colons
Sections == {"spotify", "playlist", "album", "P1", ""}

ParseInit ==
    /\ GatewayReady
    /\ \E uri \in SeqsUpTo(Sections, MaxSections) :
          applied = [stage |-> "new", uri |-> uri, id |-> "", err |-> FALSE]

\* got, err := parsePlaylistId(tt.input)
ParsePlaylistId ==
    /\ applied.stage = "new"
    /\ \E r \in {parsePlaylistId(applied.uri)} :
          applied' = [applied EXCEPT !.stage = "done", !.id = r.id, !.err = r.err]
    /\ UNCHANGED <<gateway, store, timers, inflight>>

\* The next run of the test's loop takes the same input again
ParseAgain ==
    /\ applied.stage = "done"
    /\ applied' = [applied EXCEPT !.stage = "new", !.id = "", !.err = FALSE]
    /\ UNCHANGED <<gateway, store, timers, inflight>>

ParseNext == ParsePlaylistId \/ ParseAgain

ParseSpec == ParseInit /\ [][ParseNext]_vars

Parsed == applied.stage = "done" /\ "uri" \in DOMAIN applied

\* C24: parsePlaylistId returns the id for a uri of exactly the form
\* spotify:playlist:<id>; another resource type, a fourth section, fewer
\* than three sections and the empty string each give an error and an empty
\* id, and so does every other input.
C24_ParsePlaylistId ==
    Parsed =>
       /\ (Len(applied.uri) = 3 /\ SubSeq(applied.uri, 1, 2) = <<"spotify", "playlist">>)
            => (~applied.err /\ applied.id = applied.uri[3])
       /\ (Len(applied.uri) >= 2 /\ applied.uri[2] # "playlist")
            => (applied.err /\ applied.id = "")
       /\ Len(applied.uri) > 3 => (applied.err /\ applied.id = "")
       /\ Len(applied.uri) < 3 => (applied.err /\ applied.id = "")
       /\ applied.uri = EmptyUri => (applied.err /\ applied.id = "")
       /\ applied.err => applied.id = ""
       /\ ~applied.err => SubSeq(applied.uri, 1, 2) = <<"spotify", "playlist">>

\* An album uri of three sections was refused
C24_Witness ==
    /\ Parsed
    /\ applied.uri = <<"spotify", "album", "P1">>
    /\ applied.err /\ applied.id = ""

-----------------------------------------------------------------------------
(* What the soft transfer sends to the destination, and how it can end.    *)

\* The call at position i of the request was issued after the source
\* playback was fetched and the source was paused
AfterSnapshotAndPause(i) ==
    \E g \in CallsOf("playback", req.src), j \in CallsOf("pause", req.src) :
        g < j /\ j < i

NoOpGuard ==
    /\ SnapshotFetched
    /\ (Len(FetchedQueue) = 0 \/ SnapshotNotPlaying)
    /\ NoPauseNoPlay

\* The source was paused with 200 and the destination then accepted the
\* play with 204
PausedAndAccepted ==
    \E j \in CallsOf("pause", req.src), i \in CallsOf("play", req.dst) :
        j < i /\ PausedOK(j) /\ req.calls[i].status = StatusNoContent

\* C26: transferPlayback returns success in two cases only, the no-op
\* guard (empty queue or source not playing) and a source pause answered
\* with 200 followed by a destination play answered with 204; every other
\* outcome is an error, and a destination status other than 204 gives an
\* error that carries that status and the body of the reply.
C26_SuccessOnlyWhen ==
    TransferDone("soft") =>
        /\ (req.result = "ok") <=> (NoOpGuard \/ PausedAndAccepted)
        /\ (req.result = "ok") <=> (req.status = StatusOK)
        /\ \A i \in CallsOf("play", req.dst) :
              req.calls[i].status \notin {StatusNoContent, NetErr}
              => /\ req.result = "ErrPlay"
                 /\ req.err = <<[msg |-> "failed to transfer playback",
                                 status |-> req.calls[i].status,
                                 body |-> PlayBody(req.calls[i].status)]>>

\* A transfer whose source was paused and whose destination answered the
\* play with 404
C26_Witness ==
    /\ TransferDone("soft")
    /\ \E j \in CallsOf("pause", req.src) : PausedOK(j)
    /\ \E i \in CallsOf("play", req.dst) : req.calls[i].status = 404
    /\ req.result = "ErrPlay"
    /\ req.err = <<[msg |-> "failed to transfer playback", status |-> 404,
                    body |-> "NO_ACTIVE_DEVICE"]>>

-----------------------------------------------------------------------------
(* How the hard transfer ends. *)

\* C27, as stated: hardTransferPlayback returns an error whenever the
\* destination answers the play with a status that is not a success, and
\* reports success only if the destination accepted the playback.
C27_AsStated ==
    TransferDone("hard") =>
        /\ (\E i \in Own : PlayFailedAt(i)) => req.result # "ok"
        /\ req.result = "ok"
              => \E i \in CallsOf("play", req.dst) :
                    req.calls[i].status \in {StatusOK, StatusNoContent}

\* A refresh of the token of environment p is among the calls
RefreshedIn(calls, p) ==
    \E j \in DOMAIN calls : calls[j].op = "token" /\ calls[j].env = p

\* C28, as stated: in every transfer request, of either strategy, the
\* access token of the destination environment has been refreshed within
\* the request, by the middleware or by the transfer, before any playback
\* or lookup call is issued on the destination.
C28_AsStated ==
    [][(req.stage = "handler" /\ req'.stage = "done" /\ req'.route = "transfer"
          /\ req'.kind \in {"soft", "hard"})
       => \A i \in DOMAIN req'.calls :
             (req'.calls[i].env = req'.dst /\ req'.calls[i].op # "token")
             => \/ RefreshedIn(req.calls, req'.dst)
                \/ RefreshedIn(SubSeq(req'.calls, 1, i - 1), req'.dst)]_vars

-----------------------------------------------------------------------------
(* When schedule calls action, and what the Schedule handler starts.       *)

\* C29, as stated: schedule never invokes action earlier than the
\* requested epochMillis: for every current time and every epochMillis in
\* the future, action is invoked at epochMillis or later.
C29_AsStated ==
    [][(timers.stage = "sleeping" /\ timers'.stage = "fired"
          /\ timers.epochMillis > timers.calledAt)
       => timers.now >= timers.epochMillis]_vars

\* The times a request can name, and the texts that name them
ScheduleTimes == {900, 1900}

\* strconv.Atoi(timeMillis)
AtoiMillis(text) ==
    IF \E n \in ScheduleTimes : ToString(n) = text
    THEN [n |-> CHOOSE n \in ScheduleTimes : ToString(n) = text, err |-> FALSE]
    ELSE [n |-> 0, err |-> TRUE]

\* switch action { case "alarm": ...; case "sleep": ... }: fn stays nil for
\* any other action
ScheduleBody_fn(action) == IF action \in {"alarm", "sleep"} THEN action ELSE "nil"

ScheduleBody_schedule(t, epochMillis) ==
    [status |-> StatusOK, result |-> "ok",
     timers |-> schedule(t, epochMillis, schedule_seconds(epochMillis, t.now))]

\* The Schedule handler, called at time now
ScheduleBody(q, now) ==
    IF q.time_millis = "" \/ q.action = ""
    THEN [status |-> 400, result |-> "ErrRequired", timers |-> NoTimers]
    ELSE IF AtoiMillis(q.time_millis).err
    THEN [status |-> 400, result |-> "ErrNotInteger", timers |-> NoTimers]
    ELSE ScheduleBody_schedule(
             [stage |-> "idle", now |-> now, epochMillis |-> 0, calledAt |-> 0,
              wakeAt |-> 0, invoked |-> 0, action |-> ScheduleBody_fn(q.action)],
             AtoiMillis(q.time_millis).n)

ScheduleQuery(env, action, timeMillis) ==
    [env |-> env, device_name |-> "", from |-> "", to |-> "", percentage |-> "",
     action |-> action, time_millis |-> timeMillis]

\* "snooze" is an action the handler does not know
ScheduleQueries ==
    {ScheduleQuery(env, action, t) :
        env \in {"", Home, Main}, action \in {"", "alarm", "sleep", "snooze"},
        t \in {"", "abc", "900", "1900"}}

\* The times of the clock at which the handler runs: before and after the
\* first time a request can name, in its second and in the next
HandlerTimes == {800, 1000}

TimerMiddleware == \E q \in ScheduleQueries : Middleware("schedule", q)

\* The timer of a request, with a note of the environment that was current
\* when the request was handled (the code keeps no such note)
Submitted(t, cur) ==
    [x \in DOMAIN t \cup {"cur"} |-> IF x = "cur" THEN cur ELSE t[x]]

\* The Schedule handler, at any time of the clock; one function is
\* scheduled at a time
ScheduleHandler ==
    /\ Serving /\ req.stage = "handler" /\ req.route = "schedule"
    /\ timers.stage # "sleeping"
    /\ \E now \in HandlerTimes : \E r \in {ScheduleBody(req.q, now)} :
          /\ req' = [req EXCEPT !.stage = "done", !.status = r.status,
                                !.result = r.result, !.calls = <<>>, !.seen = <<>>]
          /\ timers' = IF r.timers = NoTimers THEN timers
                       ELSE Submitted(r.timers, currentEnv)
    /\ UNCHANGED <<alive, config, heap, envs, currentEnv, files, tasks, bg, served,
                   store, applied, inflight>>

Max(a, b) == IF a >= b THEN a ELSE b

\* The goroutine of schedule: the sleep is over and action is called; a
\* call of a nil function, like any panic in a goroutine, ends the process
ScheduledTask ==
    /\ Serving /\ req.stage # "done" /\ timers.stage = "sleeping"
    /\ timers' = [timers EXCEPT !.stage = "fired", !.invoked = @ + 1,
                                !.now = Max(@, timers.wakeAt)]
    /\ IF timers.action = "nil"
       THEN /\ alive' = FALSE
            /\ bg' = [stage |-> "done", env |-> NilPtr, calls |-> <<>>, panic |-> TRUE]
            /\ UNCHANGED <<heap, files, tasks>>
       ELSE \E os \in {Outcomes([kind |-> timers.action, heap |-> heap, envs |-> envs,
                                  q |-> NoQuery, ptr |-> currentEnv])} :
            \E j \in 1..Len(os) : LET o == os[j] IN
                /\ heap' = o.c.heap
                /\ files' = o.c.files
                /\ tasks' = o.c.tasks
                /\ alive' = ~o.c.panic
                /\ bg' = [stage |-> "done", env |-> currentEnv, calls |-> o.c.calls,
                          panic |-> o.c.panic]
    /\ UNCHANGED <<config, envs, currentEnv, req, served, store, applied, inflight>>

TimerNext ==
    \/ TimerMiddleware
    \/ ScheduleHandler
    \/ Respond
    \/ ScheduledTask
    \/ ShuffleRepeat
    \/ TaskExit

TimerSpec == Init /\ [][TimerNext]_vars

\* The Schedule handler has answered a request
ScheduleDone ==
    /\ req.stage = "done" /\ req.route = "schedule"
    /\ req.result \notin {"panic", "fatal"}

\* C30, as stated: a Schedule request whose action is neither "alarm" nor
\* "sleep" is rejected with a validation error and schedules nothing; a
\* background task is never started with an undefined action.
C30_AsStated ==
    /\ (ScheduleDone /\ req.q.action \notin {"alarm", "sleep"}) => req.status = 400
    /\ timers.stage \in {"sleeping", "fired"} => timers.action \in {"alarm", "sleep"}

\* C31, as stated: a scheduled alarm or sleep action, when it fires, acts
\* on the environment that was current when its Schedule request was
\* handled, whatever other requests changed the current environment
\* between the request and the firing.
C31_AsStated ==
    [][(timers.stage = "sleeping" /\ timers'.stage = "fired"
          /\ timers.action \in {"alarm", "sleep"})
       => bg'.env = timers.cur]_vars

-----------------------------------------------------------------------------
(* Two protected requests served at the same time.  gin serves each        *)
(* request in a goroutine of its own; the statements of the middleware and *)
(* of the handler of one request interleave with those of the other.       *)

Conns == {1, 2}

Waiting ==
    [pc |-> "idle", q |-> NoQuery, sp |-> NilPtr, resolved |-> NilPtr,
     refreshed |-> NilPtr, acted |-> NilPtr, status |-> 0, handled |-> FALSE]

RaceInit ==
    /\ alive = TRUE /\ config = "full"
    /\ heap = <<>> /\ envs = <<>> /\ currentEnv = NilPtr
    /\ \E present \in SUBSET EnvironmentName :
          files = [n \in EnvironmentName |->
                     IF n \in present THEN <<StoredTokens(n)>> ELSE <<>>]
    /\ tasks = <<>> /\ req = Idle /\ bg = NoTask /\ served = 0
    /\ store = NoStore /\ timers = NoTimers /\ applied = NoCall
    /\ inflight = [r \in Conns |-> Waiting]

\* The name a goroutine is registering, and where it goes from there
Registering(pc) == IF pc \in {"checkHome", "newHome", "regHome"} THEN Home ELSE Main

AfterRegistering(pc) ==
    IF pc \in {"checkHome", "newHome", "regHome"} THEN "checkMain" ELSE "resolve"

\* GET /spotify/volume?env=...&percentage=50 arrives
Accept(r) ==
    /\ alive /\ inflight[r].pc = "idle"
    /\ \E env \in EnvironmentName :
          inflight' = [inflight EXCEPT ![r].pc = "checkHome",
                          ![r].q = [NoQuery EXCEPT !.env = env, !.percentage = "50"]]
    /\ UNCHANGED <<gateway, store, timers, applied>>

\* if envs[name] == nil
CheckRegistered(r) ==
    /\ alive /\ inflight[r].pc \in {"checkHome", "checkMain"}
    /\ inflight' = [inflight EXCEPT ![r].pc =
          IF Lookup(envs, Registering(@)) # NilPtr THEN AfterRegistering(@)
          ELSE IF @ = "checkHome" THEN "newHome" ELSE "newMain"]
    /\ UNCHANGED <<gateway, store, timers, applied>>

\* new(name) up to its last statement but one: the instance is built
Construct(r) ==
    /\ alive /\ inflight[r].pc \in {"newHome", "newMain"}
    /\ \E n \in {new(heap, envs, config, files, Registering(inflight[r].pc))} :
          /\ heap' = n.heap
          /\ inflight' = [inflight EXCEPT ![r].sp = n.ptr,
                             ![r].pc = IF @ = "newHome" THEN "regHome" ELSE "regMain"]
    /\ UNCHANGED <<alive, config, envs, currentEnv, files, tasks, req, bg, served,
                   store, timers, applied>>

\* envs[name] = &sp in new, and envs[name] = new(name) in the middleware
Register(r) ==
    /\ alive /\ inflight[r].pc \in {"regHome", "regMain"}
    /\ envs' = [k \in DOMAIN envs \cup {Registering(inflight[r].pc)} |->
                  IF k = Registering(inflight[r].pc) THEN inflight[r].sp ELSE envs[k]]
    /\ inflight' = [inflight EXCEPT ![r].pc = AfterRegistering(@)]
    /\ UNCHANGED <<alive, config, heap, currentEnv, files, tasks, req, bg, served,
                   store, timers, applied>>

\* updateEnv(envs[reqEnv])
Resolve(r) ==
    /\ alive /\ inflight[r].pc = "resolve"
    /\ currentEnv' = Lookup(envs, inflight[r].q.env)
    /\ inflight' = [inflight EXCEPT ![r].pc = "refresh",
                                    ![r].resolved = Lookup(envs, inflight[r].q.env)]
    /\ UNCHANGED <<alive, config, heap, envs, files, tasks, req, bg, served,
                   store, timers, applied>>

\* currentEnv.refreshToken(), then c.Next(); a panic is answered with 500
Refresh(r) ==
    /\ alive /\ inflight[r].pc = "refresh"
    /\ \E os \in {Outcomes([kind |-> "refresh", heap |-> heap, envs |-> envs,
                             q |-> inflight[r].q, ptr |-> NilPtr])} :
       \E i \in 1..Len(os) : \E o \in {os[i]} :
          /\ heap' = o.c.heap
          /\ files' = o.c.files
          /\ inflight' = [inflight EXCEPT
                             ![r].pc = IF o.c.panic THEN "done" ELSE "handler",
                             ![r].status = IF o.c.panic THEN 500 ELSE 0,
                             ![r].refreshed = currentEnv]
    /\ UNCHANGED <<alive, config, envs, currentEnv, tasks, req, bg, served,
                   store, timers, applied>>

\* The Volume handler: currentEnv.setVolume(volume)
VolumeOf(r) ==
    /\ alive /\ inflight[r].pc = "handler"
    /\ \E os \in {Outcomes([kind |-> "volume", heap |-> heap, envs |-> envs,
                             q |-> inflight[r].q, ptr |-> NilPtr])} :
       \E i \in 1..Len(os) : \E o \in {os[i]} :
          /\ heap' = o.c.heap
          /\ files' = o.c.files
          /\ inflight' = [inflight EXCEPT ![r].pc = "done", ![r].status = o.status,
                             ![r].acted = currentEnv, ![r].handled = TRUE]
    /\ UNCHANGED <<alive, config, envs, currentEnv, tasks, req, bg, served,
                   store, timers, applied>>

RaceNext ==
    \E r \in Conns :
        \/ Accept(r)
        \/ CheckRegistered(r)
        \/ Construct(r)
        \/ Register(r)
        \/ Resolve(r)
        \/ Refresh(r)
        \/ VolumeOf(r)

RaceSpec == RaceInit /\ [][RaceNext]_vars

\* C32, as stated: with two protected requests in flight at the same time
\* that resolve to different environments, the handler of each request
\* operates on the environment resolved by the middleware of its own
\* request, never on the one resolved by the other request.
C32_AsStated ==
    \A r \in DOMAIN inflight :
        inflight[r].handled => inflight[r].acted = inflight[r].resolved

\* Both requests are over
AllServed == inflight # NoConns /\ \A r \in DOMAIN inflight : inflight[r].pc = "done"

\* C33, as stated: when two first requests run at the same time, the
\* registry still ends with exactly one instance per name, and every
\* reference handed out for a name (to updateEnv and from there to the
\* token refresh) is that same instance: no token is updated on an
\* orphaned duplicate.
C33_AsStated ==
    AllServed =>
        /\ \A name \in EnvironmentName : Cardinality(Instances(heap, name)) = 1
        /\ \A r \in DOMAIN inflight :
              /\ inflight[r].resolved = Lookup(envs, inflight[r].q.env)
              /\ inflight[r].refreshed # NilPtr
                    => inflight[r].refreshed = Lookup(envs, inflight[r].refreshed[1])

-----------------------------------------------------------------------------
(* The OAuth flow: a login, the callback of the authorization it started,  *)
(* and protected requests in between.                                      *)

CallbackQuery(code) ==
    [env |-> "", device_name |-> "", from |-> "", to |-> "", percentage |-> "",
     code |-> code]

\* GET /spotify/login?env=... for a known environment starts an
\* authorization, which is noted
Authorize ==
    /\ \E environment \in EnvironmentName :
          /\ LoginTo(environment)
          /\ applied' = [stage |-> "authorizing", env |-> environment, into |-> NilPtr]

LoginMiddleware ==
    \E env \in EnvironmentName :
        Middleware("volume", [NoQuery EXCEPT !.env = env, !.percentage = "50"])

\* GET /spotify/callback?code=...: no middleware.  Where the tokens were
\* put is noted.
Callback ==
    /\ Serving /\ req.stage = "idle" /\ applied.stage = "authorizing"
    /\ \E code \in {"", "c1"} :
        \E os \in {Outcomes([kind |-> "callback", heap |-> heap, envs |-> envs,
                             q |-> CallbackQuery(code), ptr |-> NilPtr])} :
        \E i \in 1..Len(os) : \E o \in {os[i]} :
            /\ heap' = o.c.heap
            /\ files' = o.c.files
            /\ req' = [Idle EXCEPT !.stage = "done", !.route = "callback",
                                   !.q = CallbackQuery(code), !.curBefore = currentEnv,
                                   !.status = o.status, !.result = o.result,
                                   !.calls = o.c.calls, !.seen = Seen(o.c)]
            /\ applied' = IF o.result \in {"ok", "ErrSave"}
                          THEN [applied EXCEPT !.stage = "stored", !.into = currentEnv]
                          ELSE applied
    /\ UNCHANGED <<alive, config, envs, currentEnv, tasks, bg, served, store, timers,
                   inflight>>

LoginNext ==
    \/ Authorize
    \/ LoginMiddleware
    \/ Volume
    \/ Respond
    \/ Callback

LoginSpec == Init /\ [][LoginNext]_vars

\* C34, as stated: the tokens obtained by an OAuth callback are stored in
\* the environment named by the login that started the authorization, also
\* when requests that resolve another environment are handled between the
\* login and the callback.
C34_AsStated ==
    applied.stage = "stored" => applied.into[1] = applied.env

\* The refresh token an environment holds on disk and in memory
Durable(fs, h, name) ==
    /\ fs[name] # <<>> /\ fs[name][1].RefreshToken # ""
    /\ \A p \in Instances(h, name) :
          h[p].tokens # <<>> /\ h[p].tokens[1].RefreshToken # ""

\* C35, as stated: the refresh token is durable: once an environment holds
\* a refresh token that is not empty in memory and on disk, no operation
\* replaces it with an empty value, neither a token refresh, successful or
\* failed, nor an OAuth callback whose code exchange is answered with an
\* error response.
C35_AsStated ==
    [][\A name \in EnvironmentName :
          (Instances(heap, name) # {} /\ Durable(files, heap, name))
          => Durable(files', heap', name)]_vars

\* The request names an environment that is not registered
UnmatchedEnv ==
    /\ req.route \in {"volume", "transfer"}
    /\ req.q.env # "" /\ Lookup(envs, req.q.env) = NilPtr

\* C36, as stated: a protected request whose env names no registered
\* environment is answered as not found and leaves the current-environment
\* pointer as it was, and the pointer refers to a registered environment
\* whenever the handler is about to run.
C36_AsStated ==
    /\ (req.stage = "done" /\ req.result # "fatal" /\ UnmatchedEnv)
          => req.status = 404 /\ currentEnv = req.curBefore
    /\ req.stage = "handler"
          => currentEnv # NilPtr /\ currentEnv = Lookup(envs, currentEnv[1])

\* The request names a registered environment that was created without
\* tokens: its token file was absent or unreadable
OnTokenless ==
    /\ req.route \in {"volume", "transfer"}
    /\ Lookup(envs, req.q.env) # NilPtr
    /\ heap[Lookup(envs, req.q.env)].tokens = <<>>

\* C37, as stated: a request that operates on an environment created
\* without tokens ends with an error result and is not ended by the
\* dereference of the missing tokens.
C37_AsStated ==
    (req.stage = "done" /\ req.result # "fatal" /\ OnTokenless)
        => req.result \notin {"ok", "panic"} /\ req.status # 500

\* playPlaylist was called without offset on an environment that has
\* tokens, and the playlist lookup was answered
LookupAnswered ==
    /\ PlaylistDone /\ heap[req.src].tokens # <<>>
    /\ Saw("plStatus") /\ req.seen.plStatus # NetErr

\* C38, as stated: playPlaylist called without an explicit offset does
\* not abort abnormally: whatever the playlist lookup is answered with, a
\* total of 0 or an error body included, it returns an error or goes on to
\* issue the play call.
C38_AsStated ==
    LookupAnswered => (req.result # "panic" /\ (req.result = "ok" => Plays # {}))

\* The volume command was sent and answered with a 2xx status
VolumeAccepted == \E i \in VolumePuts : req.calls[i].status \in 200..299

\* C39, as stated: the Volume handler answers with a success response
\* only if the volume command was issued and answered with a success
\* status: an error of setVolume or an answer other than 2xx is mapped to
\* an error response.
C39_AsStated ==
    (req.stage = "done" /\ req.route = "volume" /\ req.status = StatusOK)
        => (req.result = "ok" /\ VolumeAccepted)

====
